---- MODULE Spec2Model ----
(***************************************************************************)
(* A model of the retrieval engine of llm-workspace: the in-memory         *)
(* VectorStore (core/src/rag/store.rs) with its RwLock, cosine similarity  *)
(* and ranked search, the text chunker and file collector                  *)
(* (core/src/rag/indexer.rs), the Embedder (core/src/rag/embedder.rs), the *)
(* Manager (core/src/rag/mod.rs) and the LanceDB backend stub              *)
(* (nucleus-core/src/rag/lancedb_store.rs).                                *)
(***************************************************************************)
EXTENDS Integers, Sequences, FiniteSets, Bags, TLC

VARIABLES
    documents,        \* VectorStore.documents: the Vec<Document> behind the RwLock
    rw,               \* state of the RwLock: [writer: BOOLEAN, readers: Nat]
    pc,               \* per caller: where it is inside a store method
    arg,              \* per caller: the arguments of the call in progress
    ret,              \* per caller: the value returned by its last completed call
    completed,        \* history: the documents whose add call has returned, in order
    ever_cleared,     \* history: some clear call has returned
    raced,            \* history: two add calls have been in progress at the same time
    calls,            \* concurrent runs: the number of calls made so far
    last,             \* sequential runs: the last call and what it returned
    after_add,        \* sequential runs: <<d>> when the previous call added d, else <<>>
    adds_since_clear, \* history: add calls returned since the last clear
    ch_in,            \* chunk_text: the arguments (text, chunk_size, overlap, build)
    ch_out,           \* chunk_text: the outcome of the call
    lance_disk,       \* LanceDB: the table on disk, or absent
    lance_store,      \* LanceDB: the constructed LanceDbStore, or none / failed
    lance_ret,        \* LanceDB: the last call and its Result
    cfg,              \* Manager: chunk_size, chunk_overlap, top_k (and the build)
    dir,              \* Manager: the directory tree given to index_directory
    mcall,            \* history: the call of the single caller, in progress or returned
    started,          \* history: per caller, the adds completed when its last read was called
    observed,         \* history: per caller, the Vec its last read saw under the lock
    counted           \* history: per caller, the values its count calls returned, in order

storeVars == <<documents, rw>>
concVars  == <<pc, arg, ret, completed, ever_cleared, raced, calls>>
seqVars   == <<last, after_add, adds_since_clear>>
chunkVars == <<ch_in, ch_out>>
lanceVars == <<lance_disk, lance_store, lance_ret>>
mgrVars   == <<cfg, dir, mcall>>
readVars  == <<started, observed, counted>>
vars == <<documents, rw, pc, arg, ret, completed, ever_cleared, raced, calls, last,
          after_add,
          adds_since_clear, ch_in, ch_out, lance_disk, lance_store, lance_ret,
          cfg, dir, mcall, started, observed, counted>>

(***************************************************************************)
(* Bounds of the model.                                                    *)
(***************************************************************************)
MaxDocs == 3        \* documents a store may hold in a sequential run
MaxTopK == 2        \* largest top_k passed to search
NumCallers == 2     \* concurrent callers of one store
MaxCalls == 4       \* calls made on a store in a concurrent run
MaxChars == 4       \* characters of a text given to chunk_text
MaxChunk == 3       \* largest chunk_size and overlap given to chunk_text
MaxRows == 2        \* rows of the LanceDB table found on disk
MaxFiles == 1       \* entries of the directory given to index_directory
MaxCfgChunk == 2    \* largest chunk_size and chunk_overlap of a Manager
MaxIndexCalls == 2  \* calls made on a Manager that indexes a directory
MaxKbCalls == 4     \* calls made on a Manager that is given single texts
MaxRaceCalls == 3   \* calls made on a Manager by concurrent callers
MaxReadCalls == 3   \* calls made on a store whose reads are recorded
MaxFairDocs == 1    \* documents of a store on which calls arrive for ever
NumFairCallers == 3 \* concurrent callers of a store on which calls arrive for ever

Min(a, b) == IF a <= b THEN a ELSE b
Max(a, b) == IF a >= b THEN a ELSE b
Abs(a) == IF a < 0 THEN -a ELSE a

RECURSIVE Gcd(_, _)
Gcd(a, b) == IF b = 0 THEN a ELSE Gcd(b, a % b)

(***************************************************************************)
(* f32 values.  A value is NaN or an exact rational n/d in lowest terms.   *)
(* The embeddings of the model have integer components, an integer         *)
(* magnitude and a squared magnitude below 2^24 (ExactF32 below), so every *)
(* f32 product, sum and square root of cosine_similarity is exact, and the *)
(* final quotient of two small integers rounds to equal f32 values exactly *)
(* when the rationals are equal and keeps their order.  Other embeddings   *)
(* are outside the model: on them a score can round to a neighbour of the  *)
(* exact quotient, also to one above 1.0.                                  *)
(***************************************************************************)
NaN == [nan |-> TRUE, n |-> 0, d |-> 1]

Rat(n, d) ==
    LET g == Gcd(Abs(n), Abs(d))
        s == IF d < 0 THEN -1 ELSE 1
    IN  [nan |-> FALSE, n |-> (s * n) \div g, d |-> (s * d) \div g]

F(i) == [nan |-> FALSE, n |-> i, d |-> 1]

FMul(x, y) == IF x.nan \/ y.nan THEN NaN ELSE Rat(x.n * y.n, x.d * y.d)

FAdd(x, y) == IF x.nan \/ y.nan THEN NaN ELSE Rat(x.n * y.d + y.n * x.d, x.d * y.d)

\* x == 0.0 is false for NaN
FIsZero(x) == ~x.nan /\ x.n = 0

\* f32::sqrt: exact on the squares of the model, NaN on NaN
FSqrt(x) ==
    IF x.nan THEN NaN
    ELSE Rat(CHOOSE r \in 0..x.n : r * r = x.n, CHOOSE r \in 1..x.d : r * r = x.d)

\* x / y for y /= 0.0 (cosine_similarity returns before dividing by zero)
FDiv(x, y) == IF x.nan \/ y.nan \/ y.n = 0 THEN NaN ELSE Rat(x.n * y.d, x.d * y.n)

\* f32::partial_cmp: None when either side is NaN
partial_cmp(x, y) ==
    IF x.nan \/ y.nan THEN "None"
    ELSE IF x.n * y.d < y.n * x.d THEN "Less"
    ELSE IF x.n * y.d > y.n * x.d THEN "Greater"
    ELSE "Equal"

\* iter().sum::<f32>(): a left fold from 0.0
RECURSIVE FSum(_)
FSum(s) == IF s = <<>> THEN F(0) ELSE FAdd(FSum(SubSeq(s, 1, Len(s) - 1)), s[Len(s)])

(***************************************************************************)
(* Document and SearchResult (core/src/rag/types.rs).                      *)
(***************************************************************************)
NoMetadata == <<>>

Document_new(id, content, embedding) ==
    [id |-> id, content |-> content, embedding |-> embedding, metadata |-> NoMetadata]

with_metadata(doc, key, value) ==
    [doc EXCEPT !.metadata = (key :> value) @@ doc.metadata]

(***************************************************************************)
(* cosine_similarity (core/src/rag/store.rs).                              *)
(***************************************************************************)
\* a slip: the squared magnitudes are not put under the square root
cosine_similarity_no_sqrt(a, b) ==
    IF Len(a) # Len(b) THEN F(0)
    ELSE LET dot_product == FSum([i \in 1..Len(a) |-> FMul(a[i], b[i])])
             magnitude_a == FSum([i \in 1..Len(a) |-> FMul(a[i], a[i])])
             magnitude_b == FSum([i \in 1..Len(b) |-> FMul(b[i], b[i])])
         IN  IF FIsZero(magnitude_a) \/ FIsZero(magnitude_b) THEN F(0)
             ELSE FDiv(dot_product, FMul(magnitude_a, magnitude_b))

cosine_similarity(a, b) ==
    IF Len(a) # Len(b) THEN F(0)
    ELSE LET dot_product == FSum([i \in 1..Len(a) |-> FMul(a[i], b[i])])
             magnitude_a == FSqrt(FSum([i \in 1..Len(a) |-> FMul(a[i], a[i])]))
             magnitude_b == FSqrt(FSum([i \in 1..Len(b) |-> FMul(b[i], b[i])]))
         IN  IF FIsZero(magnitude_a) \/ FIsZero(magnitude_b) THEN F(0)
             ELSE FDiv(dot_product, FMul(magnitude_a, magnitude_b))

(***************************************************************************)
(* Outcomes of a call: a value, or a panic that unwinds out of the call.   *)
(***************************************************************************)
Ok(v) == [status |-> "ok", value |-> v]
Panicked == [status |-> "panic", value |-> <<>>]

(***************************************************************************)
(* results.sort_by(|a, b| b.score.partial_cmp(&a.score).unwrap()): the     *)
(* stable sort of the standard library, an insertion sort on short slices. *)
(* The element x moves left past its neighbour while the comparator says   *)
(* Less; a comparison with a NaN score unwraps None and panics.            *)
(***************************************************************************)
\* a slip: a comparator that orders equal scores, as an unstable sort may
compare_results_unstable(a, b) ==
    IF partial_cmp(b.score, a.score) = "Equal" THEN "Less" ELSE partial_cmp(b.score, a.score)

compare_results(a, b) == partial_cmp(b.score, a.score)

RECURSIVE insert_tail(_, _)
insert_tail(sorted, x) ==
    IF sorted = <<>> THEN Ok(<<x>>)
    ELSE LET prev == sorted[Len(sorted)]
             c == compare_results(x, prev)
         IN  IF c = "None" THEN Panicked
             ELSE IF c = "Less"
                  THEN LET r == insert_tail(SubSeq(sorted, 1, Len(sorted) - 1), x)
                       IN  IF r.status = "ok" THEN Ok(Append(r.value, prev)) ELSE Panicked
                  ELSE Ok(Append(sorted, x))

RECURSIVE sort_by(_)
sort_by(s) ==
    IF Len(s) < 2 THEN Ok(s)
    ELSE LET r == sort_by(SubSeq(s, 1, Len(s) - 1))
         IN  IF r.status = "ok" THEN insert_tail(r.value, s[Len(s)]) ELSE Panicked

\* into_iter().take(top_k).collect()
take(s, k) == SubSeq(s, 1, Min(k, Len(s)))

(***************************************************************************)
(* VectorStore (core/src/rag/store.rs): the methods on the Vec, without    *)
(* the lock.  A SearchResult keeps, next to document and score, the place  *)
(* pos of the document in the Vec at the time of the scan.                 *)
(***************************************************************************)
VectorStore_new == <<>>

\* a slip: add-or-update, the document replaces a stored one of the same id
push_upsert(docs, document) ==
    IF \E i \in 1..Len(docs) : docs[i].id = document.id
    THEN [i \in 1..Len(docs) |-> IF docs[i].id = document.id THEN document ELSE docs[i]]
    ELSE Append(docs, document)

\* a slip: the document is put in front of the Vec
push_front(docs, document) == <<document>> \o docs

push(docs, document) == Append(docs, document)

scan(docs, query_embedding) ==
    [i \in 1..Len(docs) |->
        [document |-> docs[i],
         score |-> cosine_similarity(query_embedding, docs[i].embedding),
         pos |-> i]]

search(docs, query_embedding, top_k) ==
    LET results == sort_by(scan(docs, query_embedding))
    IN  IF results.status = "ok" THEN Ok(take(results.value, top_k)) ELSE Panicked

count(docs) == Len(docs)

clear(docs) == <<>>

(***************************************************************************)
(* Text (a Rust str) is its UTF-8 bytes.  The characters of the model are  *)
(* "a" and "b", one byte each, and e-acute, the two bytes C3 A9.  len() is *)
(* the number of bytes, and a slice text[start..end] panics unless both    *)
(* ends are character boundaries.                                          *)
(***************************************************************************)
Chars == {"a", "b", "e-acute"}

Utf8(c) == IF c = "e-acute" THEN <<"C3", "A9">> ELSE <<c>>

RECURSIVE Encode(_)
Encode(cs) == IF cs = <<>> THEN <<>> ELSE Utf8(cs[1]) \o Encode(SubSeq(cs, 2, Len(cs)))

\* the String of a slice that lies on character boundaries, with e-acute
\* written e'
RECURSIVE to_string(_)
to_string(bytes) ==
    IF bytes = <<>> THEN ""
    ELSE IF bytes[1] = "C3" THEN "e'" \o to_string(SubSeq(bytes, 3, Len(bytes)))
    ELSE bytes[1] \o to_string(SubSeq(bytes, 2, Len(bytes)))

is_char_boundary(text, index) ==
    \/ index = 0
    \/ index = Len(text)
    \/ index < Len(text) /\ text[index + 1] # "A9"

slice(text, start, end) ==
    IF start <= end /\ is_char_boundary(text, start) /\ is_char_boundary(text, end)
    THEN Ok(SubSeq(text, start + 1, end))
    ELSE Panicked

\* the loop never ends: the same window is pushed until memory is exhausted
Diverged == [status |-> "diverge", value |-> <<>>]

(***************************************************************************)
(* chunk_text (core/src/rag/indexer.rs).  chunk_size - overlap is usize    *)
(* arithmetic: with overlap > chunk_size it panics in a build with         *)
(* overflow checks ("debug") and wraps modulo 2^64 otherwise ("release"),  *)
(* where start + (2^64 + chunk_size - overlap) wraps again; a negative     *)
(* next start below stands for 2^64 plus that number, which is not below   *)
(* text.len().                                                             *)
(***************************************************************************)
RECURSIVE chunk_loop(_, _, _, _, _, _)
chunk_loop(text, chunk_size, overlap, build, start, chunks) ==
    IF ~(start >= 0 /\ start < Len(text)) THEN Ok(chunks)
    ELSE LET end == Min(start + chunk_size, Len(text))
             piece == slice(text, start, end)
         IN  IF piece.status # "ok" THEN Panicked
             ELSE IF end = Len(text) THEN Ok(Append(chunks, piece.value))
             ELSE IF overlap > chunk_size /\ build = "debug" THEN Panicked
             ELSE IF overlap = chunk_size THEN Diverged
             ELSE chunk_loop(text, chunk_size, overlap, build,
                             start + chunk_size - overlap, Append(chunks, piece.value))

chunk_text(text, chunk_size, overlap, build) ==
    IF Len(text) <= chunk_size THEN Ok(<<text>>)
    ELSE chunk_loop(text, chunk_size, overlap, build, 0, <<>>)

(***************************************************************************)
(* Inputs of the sequential runs.  Every embedding has integer components  *)
(* and an integer magnitude, or a NaN component.  Vec2V is VecV twice.     *)
(***************************************************************************)
VecX == <<F(1), F(0)>>
VecV == <<F(3), F(4)>>
Vec2V == <<F(6), F(8)>>
VecM == <<F(-1), F(0)>>
VecZero == <<F(0), F(0)>>
VecShort == <<F(1)>>
VecNaN == <<NaN, F(0)>>

DocPool ==
    { Document_new("a", "t", VecM),     Document_new("a", "u", VecV),
      Document_new("c", "t", VecZero),  Document_new("d", "t", VecShort),
      Document_new("e", "t", VecNaN) }

QueryPool == {VecX, VecV, VecZero}

\* inputs of the runs that add and search the same embeddings: two
\* embeddings of one direction, one of another, the zero vector and NaN
DirectionDocPool ==
    { Document_new("a", "u", VecV),     Document_new("b", "t", Vec2V),
      Document_new("b", "u", VecX),     Document_new("c", "t", VecZero),
      Document_new("e", "t", VecNaN) }

DirectionQueryPool == {VecX, VecV, Vec2V, VecZero}

Call(op, a, r) == [op |-> op, arg |-> a, result |-> r]

NoCall == Call("new", <<>>, Ok(<<>>))

\* the document added by the last call, when the last call was an add
JustAdded == IF last.op = "add" THEN <<last.arg>> ELSE <<>>

LockFree == rw = [writer |-> FALSE, readers |-> 0, writers_waiting |-> FALSE,
             readers_waiting |-> FALSE]

RECURSIVE SeqsUpTo(_, _)
SeqsUpTo(S, n) ==
    IF n = 0 THEN {<<>>}
    ELSE LET shorter == SeqsUpTo(S, n - 1)
         IN  shorter \cup {Append(s, x) : s \in {t \in shorter : Len(t) = n - 1}, x \in S}

(***************************************************************************)
(* Initial values shared by the specifications.                            *)
(***************************************************************************)
\* the threads that share the store: those of the run
Callers == DOMAIN pc

InitStore ==
    /\ documents = VectorStore_new
    /\ rw = [writer |-> FALSE, readers |-> 0, writers_waiting |-> FALSE,
             readers_waiting |-> FALSE]

InitCallersOf(threads) ==
    /\ pc = [p \in threads |-> "idle"]
    /\ arg = [p \in threads |-> <<>>]
    /\ ret = [p \in threads |-> NoCall]
    /\ completed = <<>>
    /\ ever_cleared = FALSE
    /\ raced = FALSE
    /\ calls = 0
    /\ started = [p \in threads |-> 0]
    /\ observed = [p \in threads |-> <<>>]
    /\ counted = [p \in threads |-> <<>>]

InitCallers == InitCallersOf(1..NumCallers)

InitSeq ==
    /\ last = NoCall
    /\ after_add = <<>>
    /\ adds_since_clear = 0

NotCalled == [status |-> "none", value |-> <<>>]

InitChunkIdle ==
    /\ ch_in = [text |-> <<>>, chunk_size |-> 1, overlap |-> 0, build |-> "debug"]
    /\ ch_out = NotCalled

NoTable == [exists |-> FALSE, rows |-> <<>>]

InitLanceIdle ==
    /\ lance_disk = NoTable
    /\ lance_store = "none"
    /\ lance_ret = NoCall

\* Manager::new with the default of a run that never uses the Manager
NoDir == [listing |-> "ok", entries |-> <<>>]

NoMgrCall == [op |-> "new", arg |-> <<>>, result |-> Ok(<<>>), before |-> <<>>,
              embeds |-> <<>>, io |-> FALSE]

InitMgrIdle ==
    /\ cfg = [chunk_size |-> 1, chunk_overlap |-> 0, top_k |-> 1, build |-> "debug"]
    /\ dir = NoDir
    /\ mcall = NoMgrCall

(***************************************************************************)
(* Sequential runs: one caller, each method runs from its lock             *)
(* acquisition to the drop of its guard before the next call starts.       *)
(***************************************************************************)
SeqAdd(document) ==
    /\ LockFree
    /\ Len(documents) < MaxDocs
    /\ documents' = push(documents, document)
    /\ last' = Call("add", document, Ok(<<>>))
    /\ after_add' = JustAdded
    /\ adds_since_clear' = adds_since_clear + 1
    /\ UNCHANGED <<rw, ever_cleared, completed, raced, calls, pc, arg, ret, chunkVars,
                   lanceVars, readVars, mgrVars>>

SeqSearch(query_embedding, top_k) ==
    /\ LockFree
    /\ last' = Call("search", [query |-> query_embedding, top_k |-> top_k],
                    search(documents, query_embedding, top_k))
    /\ after_add' = JustAdded
    /\ UNCHANGED <<storeVars, adds_since_clear, ever_cleared, completed, raced, calls, pc,
                   arg, ret, chunkVars, lanceVars, readVars, mgrVars>>

SeqCount ==
    /\ LockFree
    /\ last' = Call("count", <<>>, Ok(count(documents)))
    /\ after_add' = JustAdded
    /\ UNCHANGED <<storeVars, adds_since_clear, ever_cleared, completed, raced, calls, pc,
                   arg, ret, chunkVars, lanceVars, readVars, mgrVars>>

SeqClear ==
    /\ LockFree
    /\ documents' = clear(documents)
    /\ last' = Call("clear", <<>>, Ok(<<>>))
    /\ after_add' = JustAdded
    /\ adds_since_clear' = 0
    /\ ever_cleared' = TRUE
    /\ UNCHANGED <<rw, completed, raced, calls, pc, arg, ret, chunkVars, lanceVars, readVars,
                   mgrVars>>

SeqInit ==
    InitStore /\ InitCallers /\ InitSeq /\ InitChunkIdle /\ InitLanceIdle /\ InitMgrIdle

SeqNext ==
    \/ \E document \in DocPool : SeqAdd(document)
    \/ \E q \in QueryPool, k \in 0..MaxTopK : SeqSearch(q, k)
    \/ SeqCount
    \/ SeqClear

SpecSeq == SeqInit /\ [][SeqNext]_vars

(***************************************************************************)
(* Sequential runs of add and search on embeddings that are also queries.  *)
(***************************************************************************)
DirectionNext ==
    \/ \E document \in DirectionDocPool : SeqAdd(document)
    \/ \E q \in DirectionQueryPool, k \in 1..MaxTopK : SeqSearch(q, k)

SpecDirection == SeqInit /\ [][DirectionNext]_vars

(***************************************************************************)
(* The RwLock around the Vec: std::sync::RwLock, the futex-based lock of   *)
(* the standard library.  The lock word holds the writer or the number of  *)
(* readers, and the two marks WRITERS_WAITING and READERS_WAITING.         *)
(* write() is granted when nobody holds the lock, whatever the marks.      *)
(* read() is granted when no writer holds the lock and no mark is set; a   *)
(* reader that has slept in read() and runs again is also granted the lock *)
(* when readers hold it and READERS_WAITING is not set, whatever           *)
(* WRITERS_WAITING.  A thread that is not granted the lock sets its mark   *)
(* and sleeps.  The guard is dropped at the end of the method; the release *)
(* that leaves the lock free takes WRITERS_WAITING off and wakes one       *)
(* sleeping writer, and takes READERS_WAITING off and wakes all sleeping   *)
(* readers when no writer was there to wake.  A position of a caller in    *)
(* read() or write() is op_wait (has not slept), op_asleep or op_woken.    *)
(* In the runs where no thread is ever seen to sleep, read() is granted    *)
(* whenever no writer holds the lock.                                      *)
(***************************************************************************)
\* a slip: a lock that admits a reader next to a writer
can_read_always(lock) == TRUE

\* a slip: a lock that admits a reader past a blocked writer
can_read_past_writer(lock) == ~lock.writer

\* is_read_lockable
can_read(lock) == ~lock.writer /\ ~lock.readers_waiting /\ ~lock.writers_waiting

\* is_read_lockable_after_wakeup
can_read_after_wakeup(lock) == ~lock.writer /\ lock.readers > 0 /\ ~lock.readers_waiting

\* is_unlocked
can_write(lock) == ~lock.writer /\ lock.readers = 0

write_lock(lock) == [lock EXCEPT !.writer = TRUE]

\* a writer that has slept takes the lock with WRITERS_WAITING set, for the
\* other writers that may sleep
write_lock_after_wakeup(lock) == [lock EXCEPT !.writer = TRUE, !.writers_waiting = TRUE]

write_contended(lock) == [lock EXCEPT !.writers_waiting = TRUE]

read_contended(lock) == [lock EXCEPT !.readers_waiting = TRUE]

read_lock(lock) == [lock EXCEPT !.readers = @ + 1]

WaitingToWrite == {"add_wait", "clear_wait"}
AsleepInWrite  == {"add_asleep", "clear_asleep"}
WokenInWrite   == {"add_woken", "clear_woken"}
WaitingToRead  == {"search_wait", "count_wait"}
AsleepInRead   == {"search_asleep", "count_asleep"}
WokenInRead    == {"search_woken", "count_woken"}

\* the position of a thread that goes to sleep in futex_wait
asleep(at) ==
    CASE at \in {"add_wait", "add_woken"} -> "add_asleep"
      [] at \in {"clear_wait", "clear_woken"} -> "clear_asleep"
      [] at \in {"search_wait", "search_woken"} -> "search_asleep"
      [] at \in {"count_wait", "count_woken"} -> "count_asleep"

\* the position of a thread that returns from futex_wait
woken(at) ==
    CASE at = "add_asleep" -> "add_woken"
      [] at = "clear_asleep" -> "clear_woken"
      [] at = "search_asleep" -> "search_woken"
      [] at = "count_asleep" -> "count_woken"

wake(pcs, threads) ==
    [q \in DOMAIN pcs |-> IF q \in threads THEN woken(pcs[q]) ELSE pcs[q]]

\* wake_writer_or_readers on a lock that is free: the lock word and the
\* positions of the threads afterwards, one outcome for each writer that
\* futex_wake may pick
wake_writer_or_readers(lock, pcs) ==
    LET writers == {q \in DOMAIN pcs : pcs[q] \in AsleepInWrite}
        readers == {q \in DOMAIN pcs : pcs[q] \in AsleepInRead}
        unmarked == [lock EXCEPT !.writers_waiting = FALSE]
        one_writer == {[lock |-> unmarked, pcs |-> wake(pcs, {w})] : w \in writers}
        all_readers == [lock |-> [unmarked EXCEPT !.readers_waiting = FALSE],
                        pcs |-> wake(pcs, readers)]
    IN  IF lock.writers_waiting /\ ~lock.readers_waiting
        THEN IF writers = {} THEN {[lock |-> unmarked, pcs |-> pcs]} ELSE one_writer
        ELSE IF lock.writers_waiting
        THEN IF writers = {} THEN {all_readers} ELSE one_writer
        ELSE IF lock.readers_waiting THEN {all_readers}
        ELSE {[lock |-> lock, pcs |-> pcs]}

write_unlock(lock, pcs) ==
    LET unlocked == [lock EXCEPT !.writer = FALSE]
    IN  IF unlocked.writers_waiting \/ unlocked.readers_waiting
        THEN wake_writer_or_readers(unlocked, pcs)
        ELSE {[lock |-> unlocked, pcs |-> pcs]}

read_unlock(lock, pcs) ==
    LET left == [lock EXCEPT !.readers = @ - 1]
    IN  IF can_write(left) /\ left.writers_waiting
        THEN wake_writer_or_readers(left, pcs)
        ELSE {[lock |-> left, pcs |-> pcs]}

(***************************************************************************)
(* Concurrent callers of one store.  A call is made (the caller then waits *)
(* for the lock), is granted the lock, and runs its body to the return,    *)
(* where the guard is dropped.  The history of the reads (started,        *)
(* observed, counted) is kept by the specification that uses the read      *)
(* actions.                                                                *)
(***************************************************************************)
ConcDocPool == {Document_new("a", "t", VecM), Document_new("a", "u", VecV)}

ConcQueryPool == {VecV}

AddsInProgress ==
    {p \in Callers : pc[p] \in {"add_wait", "add_asleep", "add_woken", "add_in"}}

Invoke(p, where, a) ==
    /\ pc[p] = "idle"
    /\ calls < MaxCalls
    /\ calls' = calls + 1
    /\ pc' = [pc EXCEPT ![p] = where]
    /\ arg' = [arg EXCEPT ![p] = a]

Return(p, r) ==
    /\ pc' = [pc EXCEPT ![p] = "idle"]
    /\ ret' = [ret EXCEPT ![p] = r]
    /\ arg' = [arg EXCEPT ![p] = <<>>]

\* the guard is dropped and the method returns
WriteRelease(p, r) ==
    /\ \E after \in write_unlock(rw, [pc EXCEPT ![p] = "idle"]) :
         rw' = after.lock /\ pc' = after.pcs
    /\ ret' = [ret EXCEPT ![p] = r]
    /\ arg' = [arg EXCEPT ![p] = <<>>]

ReadRelease(p, r) ==
    /\ \E after \in read_unlock(rw, [pc EXCEPT ![p] = "idle"]) :
         rw' = after.lock /\ pc' = after.pcs
    /\ ret' = [ret EXCEPT ![p] = r]
    /\ arg' = [arg EXCEPT ![p] = <<>>]

\* read() of a thread at position at is granted
read_granted(lock, at) ==
    can_read(lock) \/ (at \in WokenInRead /\ can_read_after_wakeup(lock))

CallAdd(p, document) ==
    /\ Invoke(p, "add_wait", document)
    /\ raced' = (raced \/ AddsInProgress # {})
    /\ UNCHANGED <<storeVars, ret, completed, ever_cleared, seqVars, chunkVars, lanceVars,
                   readVars, mgrVars>>

AddWriteLock(p) ==
    /\ pc[p] \in {"add_wait", "add_woken"}
    /\ can_write(rw)
    /\ rw' = IF pc[p] = "add_woken" THEN write_lock_after_wakeup(rw) ELSE write_lock(rw)
    /\ pc' = [pc EXCEPT ![p] = "add_in"]
    /\ UNCHANGED <<documents, arg, ret, completed, ever_cleared, raced, calls, seqVars,
                   chunkVars, lanceVars, readVars, mgrVars>>

AddPush(p) ==
    /\ pc[p] = "add_in"
    /\ documents' = push(documents, arg[p])
    /\ WriteRelease(p, Call("add", arg[p], Ok(<<>>)))
    /\ completed' = IF ever_cleared THEN completed ELSE Append(completed, arg[p])
    /\ UNCHANGED <<ever_cleared, raced, calls, seqVars, chunkVars, lanceVars, readVars, mgrVars>>

CallSearch(p, query_embedding, top_k) ==
    /\ Invoke(p, "search_wait", [query |-> query_embedding, top_k |-> top_k])
    /\ UNCHANGED <<storeVars, ret, completed, ever_cleared, raced, seqVars, chunkVars,
                   lanceVars, mgrVars>>

SearchReadLock(p) ==
    /\ pc[p] \in {"search_wait", "search_woken"}
    /\ read_granted(rw, pc[p])
    /\ rw' = read_lock(rw)
    /\ pc' = [pc EXCEPT ![p] = "search_in"]
    /\ UNCHANGED <<documents, arg, ret, completed, ever_cleared, raced, calls, seqVars,
                   chunkVars, lanceVars, readVars, mgrVars>>

\* a panic in the sort unwinds through the read guard, which is dropped
SearchScan(p) ==
    /\ pc[p] = "search_in"
    /\ ReadRelease(p, Call("search", arg[p],
                            search(documents, arg[p].query, arg[p].top_k)))
    /\ UNCHANGED <<documents, completed, ever_cleared, raced, calls, seqVars, chunkVars,
                   lanceVars, mgrVars>>

CallCount(p) ==
    /\ Invoke(p, "count_wait", <<>>)
    /\ UNCHANGED <<storeVars, ret, completed, ever_cleared, raced, seqVars, chunkVars,
                   lanceVars, mgrVars>>

CountReadLock(p) ==
    /\ pc[p] \in {"count_wait", "count_woken"}
    /\ read_granted(rw, pc[p])
    /\ rw' = read_lock(rw)
    /\ pc' = [pc EXCEPT ![p] = "count_in"]
    /\ UNCHANGED <<documents, arg, ret, completed, ever_cleared, raced, calls, seqVars,
                   chunkVars, lanceVars, readVars, mgrVars>>

CountLen(p) ==
    /\ pc[p] = "count_in"
    /\ ReadRelease(p, Call("count", <<>>, Ok(count(documents))))
    /\ UNCHANGED <<documents, completed, ever_cleared, raced, calls, seqVars, chunkVars,
                   lanceVars, mgrVars>>

CallClear(p) ==
    /\ Invoke(p, "clear_wait", <<>>)
    /\ UNCHANGED <<storeVars, ret, completed, ever_cleared, raced, seqVars, chunkVars,
                   lanceVars, readVars, mgrVars>>

ClearWriteLock(p) ==
    /\ pc[p] \in {"clear_wait", "clear_woken"}
    /\ can_write(rw)
    /\ rw' = IF pc[p] = "clear_woken" THEN write_lock_after_wakeup(rw) ELSE write_lock(rw)
    /\ pc' = [pc EXCEPT ![p] = "clear_in"]
    /\ UNCHANGED <<documents, arg, ret, completed, ever_cleared, raced, calls, seqVars,
                   chunkVars, lanceVars, readVars, mgrVars>>

ClearVec(p) ==
    /\ pc[p] = "clear_in"
    /\ documents' = clear(documents)
    /\ WriteRelease(p, Call("clear", <<>>, Ok(<<>>)))
    /\ completed' = <<>>
    /\ ever_cleared' = TRUE
    /\ UNCHANGED <<raced, calls, seqVars, chunkVars, lanceVars, readVars, mgrVars>>

Init ==
    InitStore /\ InitCallers /\ InitSeq /\ InitChunkIdle /\ InitLanceIdle /\ InitMgrIdle

Next ==
    \E p \in Callers :
        \/ \E document \in ConcDocPool : CallAdd(p, document)
        \/ AddWriteLock(p)
        \/ AddPush(p)
        \/ \E q \in ConcQueryPool, k \in 1..1 : CallSearch(p, q, k) /\ UNCHANGED readVars
        \/ SearchReadLock(p)
        \/ SearchScan(p) /\ UNCHANGED readVars
        \/ CallCount(p) /\ UNCHANGED readVars
        \/ CountReadLock(p)
        \/ CountLen(p) /\ UNCHANGED readVars
        \/ CallClear(p)
        \/ ClearWriteLock(p)
        \/ ClearVec(p)

Spec == Init /\ [][Next]_vars

(***************************************************************************)
(* Concurrent callers of one store that is never cleared, with the history *)
(* of the reads: when a read is called, the number of adds completed so    *)
(* far is noted; when it reads the Vec under the lock, the Vec it sees is  *)
(* noted, and for count the value returned.                                *)
(***************************************************************************)
TrackCallSearch(p, query_embedding, top_k) ==
    /\ CallSearch(p, query_embedding, top_k)
    /\ started' = [started EXCEPT ![p] = Len(completed)]
    /\ UNCHANGED <<observed, counted>>

TrackSearchScan(p) ==
    /\ SearchScan(p)
    /\ observed' = [observed EXCEPT ![p] = documents]
    /\ UNCHANGED <<started, counted>>

TrackCallCount(p) ==
    /\ CallCount(p)
    /\ started' = [started EXCEPT ![p] = Len(completed)]
    /\ UNCHANGED <<observed, counted>>

TrackCountLen(p) ==
    /\ CountLen(p)
    /\ observed' = [observed EXCEPT ![p] = documents]
    /\ counted' = [counted EXCEPT ![p] = Append(@, count(documents))]
    /\ UNCHANGED started

ReadNext ==
    \E p \in Callers :
        \/ \E document \in ConcDocPool :
             calls < MaxReadCalls /\ CallAdd(p, document)
        \/ AddWriteLock(p)
        \/ AddPush(p)
        \/ \E q \in ConcQueryPool, k \in 1..1 :
             calls < MaxReadCalls /\ TrackCallSearch(p, q, k)
        \/ SearchReadLock(p)
        \/ TrackSearchScan(p)
        \/ calls < MaxReadCalls /\ TrackCallCount(p)
        \/ CountReadLock(p)
        \/ TrackCountLen(p)

SpecRead == Init /\ [][ReadNext]_vars

(***************************************************************************)
(* Concurrent callers of one store, with calls arriving for ever.  Every   *)
(* thread that can take its next step takes it in the end (weak fairness   *)
(* of each caller's steps), and a writer that runs when the lock is free   *)
(* again and again obtains it in the end (strong fairness of the grant).   *)
(* A sleeping thread runs on when a release wakes it; it may also run on   *)
(* without a wake, which nothing obliges it to do.                         *)
(***************************************************************************)
FairCallers == 1..NumFairCallers

\* the first thread calls add and clear, the others call search and count
FairWriters == {1}

FairReaders == FairCallers \ FairWriters

FairDocPool == {Document_new("a", "u", VecV)}

FairInit ==
    /\ InitStore /\ InitCallersOf(FairCallers) /\ InitSeq /\ InitChunkIdle
    /\ InitLanceIdle /\ InitMgrIdle

\* a thread calls a method; ret holds the value of a call once it has returned,
\* and nothing while the call runs
Arrive(p, where, a) ==
    /\ pc[p] = "idle"
    /\ pc' = [pc EXCEPT ![p] = where]
    /\ arg' = [arg EXCEPT ![p] = a]
    /\ ret' = [ret EXCEPT ![p] = NoCall]
    /\ UNCHANGED <<storeVars, completed, ever_cleared, calls, seqVars, chunkVars,
                   lanceVars, readVars, mgrVars>>

ArriveAdd(p, document) ==
    /\ Len(documents) + Cardinality(AddsInProgress) < MaxFairDocs
    /\ Arrive(p, "add_wait", document)
    /\ raced' = (raced \/ AddsInProgress # {})

ArriveSearch(p, query_embedding, top_k) ==
    /\ Arrive(p, "search_wait", [query |-> query_embedding, top_k |-> top_k])
    /\ UNCHANGED raced

ArriveCount(p) == Arrive(p, "count_wait", <<>>) /\ UNCHANGED raced

ArriveClear(p) == Arrive(p, "clear_wait", <<>>) /\ UNCHANGED raced

\* write() finds the lock held: the writer sets WRITERS_WAITING and sleeps
WriteContended(p) ==
    /\ pc[p] \in WaitingToWrite \cup WokenInWrite
    /\ ~can_write(rw)
    /\ rw' = write_contended(rw)
    /\ pc' = [pc EXCEPT ![p] = asleep(pc[p])]
    /\ UNCHANGED <<documents, arg, ret, completed, ever_cleared, raced, calls, seqVars,
                   chunkVars, lanceVars, readVars, mgrVars>>

\* read() is not granted: the reader sets READERS_WAITING and sleeps
ReadContended(p) ==
    /\ pc[p] \in WaitingToRead \cup WokenInRead
    /\ ~read_granted(rw, pc[p])
    /\ rw' = read_contended(rw)
    /\ pc' = [pc EXCEPT ![p] = asleep(pc[p])]
    /\ UNCHANGED <<documents, arg, ret, completed, ever_cleared, raced, calls, seqVars,
                   chunkVars, lanceVars, readVars, mgrVars>>

\* futex_wait returns although no release has woken the thread
SpuriousWake(p) ==
    /\ pc[p] \in AsleepInWrite \cup AsleepInRead
    /\ pc' = [pc EXCEPT ![p] = woken(pc[p])]
    /\ UNCHANGED <<storeVars, arg, ret, completed, ever_cleared, raced, calls, seqVars,
                   chunkVars, lanceVars, readVars, mgrVars>>

\* the grant of the lock to a thread in write()
WriteGranted(p) == AddWriteLock(p) \/ ClearWriteLock(p)

\* the steps of a call that has been made, but for the body of search
Proceed(p) ==
    \/ WriteContended(p)
    \/ ReadContended(p)
    \/ AddWriteLock(p)
    \/ AddPush(p)
    \/ SearchReadLock(p)
    \/ CountReadLock(p)
    \/ CountLen(p) /\ UNCHANGED readVars
    \/ ClearWriteLock(p)
    \/ ClearVec(p)

FairNext ==
    \/ \E p \in FairWriters :
        \/ \E document \in FairDocPool : ArriveAdd(p, document)
        \/ ArriveClear(p)
        \/ WriteContended(p)
        \/ SpuriousWake(p)
        \/ AddWriteLock(p)
        \/ AddPush(p)
        \/ ClearWriteLock(p)
        \/ ClearVec(p)
    \/ \E p \in FairReaders :
        \/ \E q \in ConcQueryPool, k \in 1..1 : ArriveSearch(p, q, k)
        \/ ArriveCount(p)
        \/ ReadContended(p)
        \/ SpuriousWake(p)
        \/ SearchReadLock(p)
        \/ SearchScan(p) /\ UNCHANGED readVars
        \/ CountReadLock(p)
        \/ CountLen(p) /\ UNCHANGED readVars

\* the body of search can always be run to its return, and SearchScan is the
\* only step that takes a caller out of it: its weak fairness says that no
\* caller stays in the body of search for ever
SearchReturns(p) == []<>(pc[p] # "search_in")

SpecFair ==
    /\ FairInit /\ [][FairNext]_vars
    /\ \A p \in FairCallers : WF_vars(Proceed(p))
    /\ \A p \in FairWriters : SF_vars(WriteGranted(p))
    /\ \A p \in FairReaders : SearchReturns(p)

(***************************************************************************)
(* LanceDbStore (nucleus-core/src/rag/lancedb_store.rs).  The table of the *)
(* collection is found on disk with some rows, or is absent.  A source     *)
(* path is the sequence of its components.  LanceDbStore::new awaits three *)
(* calls of lancedb, one after the other, and each is a step.  The files   *)
(* on disk belong to the one store instance and change only through it.    *)
(***************************************************************************)
Err(msg) == [status |-> "err", value |-> msg]

RowPool ==
    { with_metadata(Document_new("r1", "t", VecX), "source", <<"dirA">>),
      with_metadata(Document_new("r2", "t", VecV), "source", <<"dirA", "f1">>),
      with_metadata(Document_new("r3", "t", VecX), "source", <<"dirB", "f2">>) }

SourcePool == {<<"dirA">>, <<"dirB">>, <<"dirC">>}

LanceInit ==
    /\ lance_disk \in
         {NoTable} \cup {[exists |-> TRUE, rows |-> r] : r \in SeqsUpTo(RowPool, MaxRows)}
    /\ lance_store = "none"
    /\ lance_ret = NoCall
    /\ InitStore /\ InitCallers /\ InitSeq /\ InitChunkIdle /\ InitMgrIdle

LanceFrame == UNCHANGED <<storeVars, concVars, seqVars, chunkVars, mgrVars, readVars>>

\* the error of a call of the lancedb crate that fails and is left through
\* `?` as it is; the fault of a step names the call that fails in it, or none
LanceError == Err("lancedb error")

\* LanceDbStore::new returns Err: no store is constructed
NewFails(fault, error) ==
    /\ lance_store' = "failed"
    /\ lance_ret' = Call("new", [fault |-> fault], error)

\* LanceDbStore::new is called: connect(path).execute() is awaited
LanceDbStore_new ==
    /\ lance_store = "none"
    /\ lance_store' = "connecting"
    /\ UNCHANGED <<lance_disk, lance_ret>>
    /\ LanceFrame

\* connect answers; then conn.table_names().execute() is awaited
LanceConnected(fault) ==
    /\ lance_store = "connecting"
    /\ IF fault = "connect" THEN NewFails(fault, Err("Failed to connect to LanceDB"))
       ELSE lance_store' = "listing" /\ UNCHANGED lance_ret
    /\ UNCHANGED lance_disk
    /\ LanceFrame

\* table_names answers with the tables that are on disk now; then
\* conn.open_table(collection_name).execute() is awaited when the table is
\* among them, and new bails out when it is not
LanceTablesListed(fault) ==
    /\ lance_store = "listing"
    /\ IF fault = "table_names" THEN NewFails(fault, LanceError)
       ELSE IF ~lance_disk.exists
       THEN NewFails(fault, Err("Creating new LanceDB tables not yet implemented"))
       ELSE lance_store' = "opening" /\ UNCHANGED lance_ret
    /\ UNCHANGED lance_disk
    /\ LanceFrame

\* open_table answers: when it fails, whatever the reason, the error is given
\* the context below; otherwise the store is constructed
LanceTableOpened(fault) ==
    /\ lance_store = "opening"
    /\ IF fault = "open_table"
       THEN NewFails(fault, Err("Failed to open LanceDB table"))
       ELSE /\ lance_store' = "open"
            /\ lance_ret' = Call("new", [fault |-> fault], Ok(<<>>))
    /\ UNCHANGED lance_disk
    /\ LanceFrame

LanceAdd(document) ==
    /\ lance_store = "open"
    /\ lance_ret' = Call("add", document, Err("LanceDB add not yet fully implemented"))
    /\ UNCHANGED <<lance_disk, lance_store>>
    /\ LanceFrame

LanceSearch(query_embedding, top_k) ==
    /\ lance_store = "open"
    /\ lance_ret' = Call("search", [query |-> query_embedding, top_k |-> top_k],
                         Err("LanceDB search not yet fully implemented"))
    /\ UNCHANGED <<lance_disk, lance_store>>
    /\ LanceFrame

\* table.count_rows(None).await?: the error of lancedb, or the number of rows
count_result(rows, fault) ==
    IF fault = "count_rows" THEN LanceError ELSE Ok(Len(rows))

LanceCount(fault) ==
    /\ lance_store = "open"
    /\ lance_ret' = Call("count", [fault |-> fault], count_result(lance_disk.rows, fault))
    /\ UNCHANGED <<lance_disk, lance_store>>
    /\ LanceFrame

LanceClear ==
    /\ lance_store = "open"
    /\ lance_ret' = Call("clear", [before |-> lance_disk.rows],
                         Err("LanceDB clear not yet fully implemented"))
    /\ UNCHANGED <<lance_disk, lance_store>>
    /\ LanceFrame

LanceGetIndexedPaths ==
    /\ lance_store = "open"
    /\ lance_ret' = Call("get_indexed_paths", <<>>,
                         Err("LanceDB get_indexed_paths not yet fully implemented"))
    /\ UNCHANGED <<lance_disk, lance_store>>
    /\ LanceFrame

LanceRemoveBySource(source_path) ==
    /\ lance_store = "open"
    /\ lance_ret' = Call("remove_by_source",
                         [source_path |-> source_path, before |-> lance_disk.rows],
                         Err("LanceDB remove_by_source not yet fully implemented"))
    /\ UNCHANGED <<lance_disk, lance_store>>
    /\ LanceFrame

LanceNext ==
    \/ LanceDbStore_new
    \/ \E fault \in {"none", "connect"} : LanceConnected(fault)
    \/ \E fault \in {"none", "table_names"} : LanceTablesListed(fault)
    \/ \E fault \in {"none", "open_table"} : LanceTableOpened(fault)
    \/ \E document \in RowPool : LanceAdd(document)
    \/ \E q \in QueryPool, k \in 1..MaxTopK : LanceSearch(q, k)
    \/ \E fault \in {"none", "count_rows"} : LanceCount(fault)
    \/ LanceClear
    \/ LanceGetIndexedPaths
    \/ \E source_path \in SourcePool : LanceRemoveBySource(source_path)

SpecLance == LanceInit /\ [][LanceNext]_vars

(***************************************************************************)
(* The chunker alone: the arguments are drawn at the start, the call       *)
(* applies chunk_text to them.                                             *)
(***************************************************************************)
Texts == {Encode(cs) : cs \in SeqsUpTo(Chars, MaxChars)}

Builds == {"debug", "release"}

ChunkInit ==
    /\ ch_in \in [text : Texts, chunk_size : 0..MaxChunk, overlap : 0..MaxChunk,
                  build : Builds]
    /\ ch_out = NotCalled
    /\ InitStore /\ InitCallers /\ InitSeq /\ InitLanceIdle /\ InitMgrIdle

ChunkCall ==
    /\ ch_out = NotCalled
    /\ ch_out' = chunk_text(ch_in.text, ch_in.chunk_size, ch_in.overlap, ch_in.build)
    /\ UNCHANGED <<ch_in, storeVars, concVars, seqVars, lanceVars, readVars, mgrVars>>

ChunkNext == ChunkCall

SpecChunk == ChunkInit /\ [][ChunkNext]_vars

(***************************************************************************)
(* Embedder::embed (core/src/rag/embedder.rs).  The Ollama client answers  *)
(* a request with an error or with a list of embeddings; embed returns the *)
(* first embedding of the list, or NoEmbeddings when the list is empty.    *)
(***************************************************************************)
\* the answer of a client whose request failed
OllamaError == [status |-> "err", value |-> <<>>]

embed(response) ==
    IF response.status # "ok" THEN Err("Ollama")
    ELSE IF response.value = <<>> THEN Err("NoEmbeddings")
    ELSE Ok(response.value[1])

\* one request to the service: the text sent and the answer received
Request(input, response) == [input |-> input, response |-> response]

\* RagError: the #[from] conversions of the ? operator
RagError_Embedder(e) == [kind |-> "Embedder", source |-> e]

RagError_Indexer(e) == [kind |-> "Indexer", source |-> e]

(***************************************************************************)
(* collect_files (core/src/rag/indexer.rs).  A directory is a listing that *)
(* succeeds with its entries in read_dir order, or fails.  An entry is a   *)
(* sub-directory or a file; a file's content is its UTF-8 text, or is not  *)
(* readable as a string.  A path is a stem and an extension.               *)
(***************************************************************************)
IndexableExts == {"rs", "go", "py", "js", "ts", "tsx", "jsx", "md", "txt"}

is_indexable(path) == path.ext # "none" /\ path.ext \in IndexableExts

\* path.display() and path.to_string_lossy() of a valid UTF-8 path
display(path) == IF path.ext = "none" THEN path.stem ELSE path.stem \o "." \o path.ext

RECURSIVE collect_entries(_, _, _)
RECURSIVE collect_files_recursive(_, _)
collect_entries(entries, k, files) ==
    IF k > Len(entries) THEN Ok(files)
    ELSE LET entry == entries[k]
         IN  IF entry.kind = "dir"
             THEN LET r == collect_files_recursive(entry.sub, files)
                  IN  IF r.status = "ok" THEN collect_entries(entries, k + 1, r.value)
                      ELSE r
             ELSE IF is_indexable(entry.path) /\ entry.content.status = "ok"
             THEN collect_entries(entries, k + 1,
                      Append(files, [path |-> entry.path, content |-> entry.content.value]))
             ELSE collect_entries(entries, k + 1, files)

collect_files_recursive(d, files) ==
    IF d.listing # "ok" THEN Err("Io") ELSE collect_entries(d.entries, 1, files)

collect_files(d) == collect_files_recursive(d, <<>>)

(***************************************************************************)
(* Manager (core/src/rag/mod.rs).  A call of an async method runs from one *)
(* await to the next in one step: the caller is at the await of the        *)
(* traversal of the directory (ix_collect) until the files are read, or at *)
(* the await of an embedding request (ak_embed, rc_embed, ix_embed) until  *)
(* the answer of the service arrives, and other callers run meanwhile.     *)
(* The traversal reads the file system alone, so the awaits inside it are  *)
(* one position of the caller.  Every store                                *)
(* method holds the lock of the store from its start to its return, so it  *)
(* is one step; another caller may run between two store methods of one    *)
(* call.  A panic inside chunk_text or search is the outcome of the whole  *)
(* call, and a chunk_text that never returns leaves the caller inside the  *)
(* call for ever; the documents added before it stay.                      *)
(***************************************************************************)
\* where a call is after a step: at an await, or returned with a result;
\* add holds the document the step gives to store.add, if any
Step(at, a, result, add) == [at |-> at, arg |-> a, result |-> result, add |-> add]

Returns(a, result) == Step("return", a, result, <<>>)

\* the outcome of a call that was dropped
Abandoned == [status |-> "abandoned", value |-> <<>>]

\* the document built from chunk i of a file and its embedding
chunk_document(file, chunk, i, embedding) ==
    with_metadata(
        with_metadata(Document_new(display(file.path) \o "_chunk_" \o ToString(i),
                                   chunk, embedding),
                      "source", display(file.path)),
        "chunk", ToString(i))

\* `for file in files` from file k on, up to the first embedding request:
\* a file without chunks is counted and passed
RECURSIVE index_files(_, _, _, _)
index_files(files, k, indexed_count, config) ==
    IF k > Len(files) THEN Returns(<<>>, Ok(indexed_count))
    ELSE LET chunks == chunk_text(files[k].content, config.chunk_size,
                                  config.chunk_overlap, config.build)
         IN  IF chunks.status = "diverge" THEN Step("diverged", <<>>, chunks, <<>>)
             ELSE IF chunks.status # "ok" THEN Returns(<<>>, chunks)
             ELSE IF chunks.value = <<>>
             THEN index_files(files, k + 1, indexed_count + 1, config)
             ELSE Step("ix_embed",
                       [files |-> files, k |-> k, i |-> 0,
                        chunks |-> [j \in 1..Len(chunks.value) |->
                                       to_string(chunks.value[j])],
                        indexed_count |-> indexed_count],
                       <<>>, <<>>)

\* index_directory from the answer of collect_files to the first embedding
\* request
index_directory(d, config) ==
    LET files == collect_files(d)
    IN  IF files.status # "ok" THEN Returns(<<>>, Err(RagError_Indexer(files.value)))
        ELSE index_files(files.value, 1, 0, config)

\* `for (i, chunk) in chunks` after chunk i: the next chunk, or the next file
index_chunks(a, config) ==
    IF a.i + 1 < Len(a.chunks) THEN Step("ix_embed", [a EXCEPT !.i = a.i + 1], <<>>, <<>>)
    ELSE index_files(a.files, a.k + 1, a.indexed_count + 1, config)

\* a slip: a chunk whose embedding fails is skipped and the loop goes on
index_embedded_skip(a, embedding, config) ==
    IF embedding.status # "ok" THEN index_chunks(a, config)
    ELSE [index_chunks(a, config) EXCEPT
             !.add = <<chunk_document(a.files[a.k], a.chunks[a.i + 1], a.i,
                                      embedding.value)>>]

\* the answer to the request for chunk i: `?` returns the error, else the
\* document is added and the loops go on
index_embedded(a, embedding, config) ==
    IF embedding.status # "ok" THEN Returns(<<>>, Err(RagError_Embedder(embedding.value)))
    ELSE [index_chunks(a, config) EXCEPT
             !.add = <<chunk_document(a.files[a.k], a.chunks[a.i + 1], a.i,
                                      embedding.value)>>]

\* a slip: a failed embedding request is sent once more
add_knowledge_embedded_retry(a, embedding) ==
    IF embedding.status # "ok" THEN Step("ak_embed", a, <<>>, <<>>)
    ELSE Step("ak_count", [a EXCEPT !.embedding = embedding.value], <<>>, <<>>)

\* self.embedder.embed(content).await?
add_knowledge_embedded(a, embedding) ==
    IF embedding.status # "ok" THEN Returns(a, Err(RagError_Embedder(embedding.value)))
    ELSE Step("ak_count", [a EXCEPT !.embedding = embedding.value], <<>>, <<>>)

\* a slip: the id is made of the count read after the document is added
knowledge_id_count_after(source, n) == source \o "_" \o ToString(n + 1)

\* format!("{}_{}", source, self.store.count())
knowledge_id(source, n) == source \o "_" \o ToString(n)

\* a slip: the document is added without its source
knowledge_document_bare(id, content, embedding, source) ==
    Document_new(id, content, embedding)

knowledge_document(id, content, embedding, source) ==
    with_metadata(Document_new(id, content, embedding), "source", source)

Header == "\n\nRelevant context from your knowledge base:\n"

\* a slip: the entries are numbered from 0
RECURSIVE render_from_zero(_, _, _)
render_from_zero(results, i, context) ==
    IF i >= Len(results) THEN context
    ELSE render_from_zero(results, i + 1,
                          context \o "\n[" \o ToString(i) \o "] "
                                  \o results[i + 1].document.content \o "\n")

\* the loop `for (i, result) in results.iter().enumerate()`, i from 0
RECURSIVE render(_, _, _)
render(results, i, context) ==
    IF i >= Len(results) THEN context
    ELSE render(results, i + 1,
                context \o "\n[" \o ToString(i + 1) \o "] "
                        \o results[i + 1].document.content \o "\n")

\* a slip: the header is returned even when nothing was found
context_of_unchecked(results) == Ok(render(results, 0, Header))

\* retrieve_context after the search: the empty string, or the rendered block
context_of(results) ==
    IF results = <<>> THEN Ok("") ELSE Ok(render(results, 0, Header))

\* a slip: the query is embedded before the store is looked at
retrieve_context_embed_first(docs, query) ==
    Step("rc_embed", [query |-> query, embedding |-> <<>>], <<>>, <<>>)

\* retrieve_context up to its await: the count check
retrieve_context(docs, query) ==
    IF count(docs) = 0 THEN Returns([query |-> query, embedding |-> <<>>], Ok(""))
    ELSE Step("rc_embed", [query |-> query, embedding |-> <<>>], <<>>, <<>>)

\* a slip: a failed query embedding falls back to an empty context
retrieve_context_fallback(a, query_embedding) ==
    IF query_embedding.status # "ok" THEN Returns(a, Ok(""))
    ELSE Step("rc_search", [a EXCEPT !.embedding = query_embedding.value], <<>>, <<>>)

\* self.embedder.embed(query).await?
retrieve_context_embedded(a, query_embedding) ==
    IF query_embedding.status # "ok"
    THEN Returns(a, Err(RagError_Embedder(query_embedding.value)))
    ELSE Step("rc_search", [a EXCEPT !.embedding = query_embedding.value], <<>>, <<>>)

(***************************************************************************)
(* remove_by_source on the Vec of the reference store, as the store        *)
(* contract describes it: it removes the documents whose source metadata   *)
(* is source_path or lies under it, and returns how many it removed.       *)
(***************************************************************************)
source_matches(document, source_path) ==
    /\ "source" \in DOMAIN document.metadata
    /\ LET source == document.metadata["source"]
           prefix == source_path \o "/"
       IN  \/ source = source_path
           \/ Len(source) >= Len(prefix) /\ SubSeq(source, 1, Len(prefix)) = prefix

remove_by_source(docs, source_path) ==
    LET Kept(document) == ~source_matches(document, source_path)
        kept == SelectSeq(docs, Kept)
    IN  [docs |-> kept, result |-> Ok(Len(docs) - Len(kept))]

(***************************************************************************)
(* The steps of the callers of one Manager.                                *)
(***************************************************************************)
MgrFrame == UNCHANGED <<rw, raced, seqVars, chunkVars, lanceVars, readVars, cfg, dir>>

\* a caller that is in no call calls a method
MgrInvoke(p) ==
    /\ pc[p] = "idle"
    /\ LockFree
    /\ calls' = calls + 1

\* the caller goes where the step leaves the call
Goto(p, op, s) ==
    IF s.at = "return" THEN Return(p, Call(op, s.arg, s.result))
    ELSE /\ pc' = [pc EXCEPT ![p] = s.at]
         /\ arg' = [arg EXCEPT ![p] = s.arg]
         /\ UNCHANGED ret

\* self.store.add(document) of a step, if it has one
StoreAdd(s) ==
    IF s.add = <<>> THEN UNCHANGED <<documents, completed>>
    ELSE /\ documents' = push(documents, s.add[1])
         /\ completed' = IF ever_cleared THEN completed ELSE Append(completed, s.add[1])

\* index_directory is called: collect_files(dir_path) is awaited
CallIndexDirectory(p) ==
    /\ MgrInvoke(p)
    /\ pc' = [pc EXCEPT ![p] = "ix_collect"]
    /\ UNCHANGED <<documents, arg, ret, completed, ever_cleared>>
    /\ MgrFrame

\* collect_files(dir_path).await?: the traversal has read the files, the
\* first file is chunked and its first chunk is sent to the embedder
IxCollected(p) ==
    /\ pc[p] = "ix_collect"
    /\ Goto(p, "index_directory", index_directory(dir, cfg))
    /\ UNCHANGED <<documents, completed, ever_cleared, calls>>
    /\ MgrFrame

\* self.embedder.embed(&chunk).await?, self.store.add(document) and the
\* loops up to the next request
IxEmbedded(p, response) ==
    /\ pc[p] = "ix_embed"
    /\ LockFree
    /\ LET s == index_embedded(arg[p], embed(response), cfg)
       IN  StoreAdd(s) /\ Goto(p, "index_directory", s)
    /\ UNCHANGED <<ever_cleared, calls>>
    /\ MgrFrame

CallAddKnowledge(p, content, source) ==
    /\ MgrInvoke(p)
    /\ pc' = [pc EXCEPT ![p] = "ak_embed"]
    /\ arg' = [arg EXCEPT ![p] = [content |-> content, source |-> source,
                                  embedding |-> <<>>, id |-> ""]]
    /\ UNCHANGED <<documents, ret, completed, ever_cleared>>
    /\ MgrFrame

\* self.embedder.embed(content).await?
AkEmbedded(p, response) ==
    /\ pc[p] = "ak_embed"
    /\ Goto(p, "add_knowledge", add_knowledge_embedded(arg[p], embed(response)))
    /\ UNCHANGED <<documents, completed, ever_cleared, calls>>
    /\ MgrFrame

\* the call is dropped while the embedding is pending
AkAbandoned(p) ==
    /\ pc[p] = "ak_embed"
    /\ Return(p, Call("add_knowledge", arg[p], Abandoned))
    /\ UNCHANGED <<documents, completed, ever_cleared, calls>>
    /\ MgrFrame

\* self.store.count() in the id
AkCount(p) ==
    /\ pc[p] = "ak_count"
    /\ LockFree
    /\ pc' = [pc EXCEPT ![p] = "ak_add"]
    /\ arg' = [arg EXCEPT ![p].id = knowledge_id(arg[p].source, count(documents))]
    /\ UNCHANGED <<documents, ret, completed, ever_cleared, calls>>
    /\ MgrFrame

\* self.store.add(document); Ok(())
AkAdd(p) ==
    /\ pc[p] = "ak_add"
    /\ LockFree
    /\ LET document == knowledge_document(arg[p].id, arg[p].content, arg[p].embedding,
                                          arg[p].source)
       IN  /\ documents' = push(documents, document)
           /\ completed' = IF ever_cleared THEN completed ELSE Append(completed, document)
    /\ Return(p, Call("add_knowledge", arg[p], Ok(<<>>)))
    /\ UNCHANGED <<ever_cleared, calls>>
    /\ MgrFrame

\* retrieve_context up to its await: the count check
CallRetrieveContext(p, query) ==
    /\ MgrInvoke(p)
    /\ Goto(p, "retrieve_context", retrieve_context(documents, query))
    /\ UNCHANGED <<documents, completed, ever_cleared>>
    /\ MgrFrame

\* self.embedder.embed(query).await?
RcEmbedded(p, response) ==
    /\ pc[p] = "rc_embed"
    /\ Goto(p, "retrieve_context", retrieve_context_embedded(arg[p], embed(response)))
    /\ UNCHANGED <<documents, completed, ever_cleared, calls>>
    /\ MgrFrame

\* self.store.search(&query_embedding, self.top_k) and the rest of the call
RcSearch(p) ==
    /\ pc[p] = "rc_search"
    /\ LockFree
    /\ LET results == search(documents, arg[p].embedding, cfg.top_k)
       IN  Return(p, Call("retrieve_context", arg[p],
                          IF results.status # "ok" THEN Panicked
                          ELSE context_of(results.value)))
    /\ UNCHANGED <<documents, completed, ever_cleared, calls>>
    /\ MgrFrame

\* Manager::count
MgrCount(p) ==
    /\ MgrInvoke(p)
    /\ ret' = [ret EXCEPT ![p] = Call("count", <<>>, Ok(count(documents)))]
    /\ UNCHANGED <<documents, pc, arg, completed, ever_cleared>>
    /\ MgrFrame

\* Manager::clear
MgrClear(p) ==
    /\ MgrInvoke(p)
    /\ documents' = clear(documents)
    /\ ret' = [ret EXCEPT ![p] = Call("clear", <<>>, Ok(<<>>))]
    /\ completed' = <<>>
    /\ ever_cleared' = TRUE
    /\ UNCHANGED <<pc, arg>>
    /\ MgrFrame

RemoveBySource(p, source_path) ==
    /\ MgrInvoke(p)
    /\ LET r == remove_by_source(documents, source_path)
       IN  /\ documents' = r.docs
           /\ ret' = [ret EXCEPT ![p] =
                         Call("remove_by_source", [source_path |-> source_path], r.result)]
    /\ UNCHANGED <<pc, arg, completed, ever_cleared>>
    /\ MgrFrame

(***************************************************************************)
(* Runs of one Manager with a single caller, which makes one call at a     *)
(* time: it awaits the return of a call before it makes the next.  The     *)
(* history of the caller's call is kept as the call goes: the Vec of the   *)
(* store when it was made (before), the requests sent to the embedding     *)
(* service with their answers (embeds), whether the file system was read   *)
(* (io) and, once the call has returned, its result.                       *)
(***************************************************************************)
Solo == CHOOSE p \in Callers : \A q \in Callers : p <= q

\* the result of the caller's call, as far as it is known
Outcome(p) ==
    IF pc[p] = "diverged" THEN Diverged
    ELSE IF pc[p] = "idle" THEN ret[p].result
    ELSE [status |-> "pending", value |-> <<>>]

\* the caller makes a call
Begins(op, a, io) ==
    mcall' = [op |-> op, arg |-> a, result |-> Outcome(Solo)', before |-> documents,
              embeds |-> <<>>, io |-> io]

\* the answer to a request of the call arrives
Sent(input, response) ==
    mcall' = [mcall EXCEPT !.embeds = Append(@, Request(input, response)),
                           !.result = Outcome(Solo)']

\* the call takes a step that sends nothing
Goes == mcall' = [mcall EXCEPT !.result = Outcome(Solo)']

\* no history is kept of concurrent callers
Untracked == UNCHANGED mcall

Pending == [op |-> "pending", arg |-> <<>>, result |-> [status |-> "pending", value |-> <<>>],
            before |-> <<>>, embeds |-> <<>>, io |-> FALSE]

\* the last call of the single caller that has returned, or has panicked,
\* or will never return
mlast == IF mcall.result.status = "pending" THEN Pending ELSE mcall

File(stem, ext, chars) ==
    [kind |-> "file", path |-> [stem |-> stem, ext |-> ext], content |-> Ok(Encode(chars))]

\* a file whose bytes are not valid UTF-8: read_to_string fails
Binary(stem, ext) ==
    [kind |-> "file", path |-> [stem |-> stem, ext |-> ext],
     content |-> [status |-> "err", value |-> <<>>]]

SubDir(stem, sub) ==
    [kind |-> "dir", path |-> [stem |-> stem, ext |-> "none"], sub |-> sub]

Unlistable == [listing |-> "err", entries |-> <<>>]

\* the entries a directory may hold, in the order read_dir lists them
EntryList ==
    << File("d/f", "md", <<"a", "b">>),
       File("d/g", "txt", <<"e-acute", "a">>),
       File("d/h", "exe", <<"a">>),
       Binary("d/u", "rs"),
       SubDir("d/s", [listing |-> "ok",
                      entries |-> << File("d/s/k", "rs", <<"a", "b", "a">>),
                                     File("d/s/m", "py", <<"b">>) >>]),
       SubDir("d/x", Unlistable) >>

DirPool ==
    {Unlistable} \cup
    { [listing |-> "ok", entries |-> [i \in 1..Len(s) |-> EntryList[s[i]]]] :
        s \in { s \in SeqsUpTo(1..Len(EntryList), MaxFiles) :
                  \A i, j \in 1..Len(s) : i < j => s[i] < s[j] } }

IndexConfigs ==
    [chunk_size : 1..MaxCfgChunk, chunk_overlap : 0..MaxCfgChunk, top_k : {1},
     build : Builds]

\* the answers of the embedding service to a request for a chunk
IndexResponses == {Ok(<<VecNaN, VecV>>), OllamaError, Ok(<<>>)}

InitMgrHistory == mcall = NoMgrCall

IndexInit ==
    /\ cfg \in IndexConfigs
    /\ dir \in DirPool
    /\ InitMgrHistory
    /\ InitStore /\ InitCallers /\ InitSeq /\ InitChunkIdle /\ InitLanceIdle

IndexNext ==
    \/ /\ calls < MaxIndexCalls
       /\ CallIndexDirectory(Solo)
       /\ Begins("index_directory", <<>>, TRUE)
    \/ IxCollected(Solo) /\ Goes
    \/ \E response \in IndexResponses :
         /\ IxEmbedded(Solo, response)
         /\ Sent(arg[Solo].chunks[arg[Solo].i + 1], response)
    \/ /\ calls < MaxIndexCalls
       /\ MgrCount(Solo)
       /\ Begins("count", <<>>, FALSE)
    \/ /\ calls < MaxIndexCalls
       /\ MgrClear(Solo)
       /\ Begins("clear", <<>>, FALSE)

SpecIndex == IndexInit /\ [][IndexNext]_vars

(***************************************************************************)
(* Runs of one Manager whose single caller gives it single texts and       *)
(* queries.  remove_by_source acts on the store of the Manager.            *)
(***************************************************************************)
KbConfigs == [chunk_size : {1}, chunk_overlap : {0}, top_k : 0..MaxTopK, build : {"debug"}]

KbInputs == {[content |-> "t", source |-> "a"], [content |-> "u", source |-> "b"]}

KbQueries == {"q"}

\* the embedding the service computes for a text
Embedding(text) == IF text = "t" THEN VecX ELSE VecV

\* the answers of the embedding service to the request for a text: its
\* embedding, a list whose first embedding has a NaN component, a failure of
\* the request, or no embedding at all
KbResponses(text) ==
    {Ok(<<Embedding(text)>>), Ok(<<VecNaN, VecV>>), OllamaError, Ok(<<>>)}

\* add_knowledge of the single caller, step by step
SoloAddKnowledge ==
    \/ /\ pc[Solo] = "ak_embed"
       /\ \E response \in KbResponses(arg[Solo].content) :
            AkEmbedded(Solo, response) /\ Sent(arg[Solo].content, response)
    \/ AkCount(Solo) /\ Goes
    \/ AkAdd(Solo) /\ Goes

\* retrieve_context of the single caller, step by step
SoloRetrieveContext ==
    \/ /\ pc[Solo] = "rc_embed"
       /\ \E response \in KbResponses(arg[Solo].query) :
            RcEmbedded(Solo, response) /\ Sent(arg[Solo].query, response)
    \/ RcSearch(Solo) /\ Goes

KbInit ==
    /\ cfg \in KbConfigs
    /\ dir = NoDir
    /\ InitMgrHistory
    /\ InitStore /\ InitCallers /\ InitSeq /\ InitChunkIdle /\ InitLanceIdle

KbNext ==
    \/ \E input \in KbInputs :
         /\ calls < MaxKbCalls
         /\ CallAddKnowledge(Solo, input.content, input.source)
         /\ Begins("add_knowledge", input, FALSE)
    \/ SoloAddKnowledge
    \/ \E query \in KbQueries :
         /\ calls < MaxKbCalls
         /\ CallRetrieveContext(Solo, query)
         /\ Begins("retrieve_context", [query |-> query], FALSE)
    \/ SoloRetrieveContext
    \/ \E input \in KbInputs :
         /\ calls < MaxKbCalls
         /\ RemoveBySource(Solo, input.source)
         /\ Begins("remove_by_source", [source_path |-> input.source], FALSE)
    \/ /\ calls < MaxKbCalls
       /\ MgrCount(Solo)
       /\ Begins("count", <<>>, FALSE)
    \/ /\ calls < MaxKbCalls
       /\ MgrClear(Solo)
       /\ Begins("clear", <<>>, FALSE)

SpecKb == KbInit /\ [][KbNext]_vars

(***************************************************************************)
(* Runs of one Manager whose single caller uses its three embedding        *)
(* operations on a small directory.                                        *)
(***************************************************************************)
EmbedConfigs == [chunk_size : {2}, chunk_overlap : {0, 1}, top_k : {1}, build : {"debug"}]

EmbedDirs ==
    { [listing |-> "ok", entries |-> <<EntryList[1]>>],
      [listing |-> "ok", entries |-> <<EntryList[2], EntryList[5]>>] }

EmbedInit ==
    /\ cfg \in EmbedConfigs
    /\ dir \in EmbedDirs
    /\ InitMgrHistory
    /\ InitStore /\ InitCallers /\ InitSeq /\ InitChunkIdle /\ InitLanceIdle

EmbedNext ==
    \/ /\ calls < MaxIndexCalls
       /\ CallIndexDirectory(Solo)
       /\ Begins("index_directory", <<>>, TRUE)
    \/ IxCollected(Solo) /\ Goes
    \/ \E response \in IndexResponses :
         /\ IxEmbedded(Solo, response)
         /\ Sent(arg[Solo].chunks[arg[Solo].i + 1], response)
    \/ \E input \in KbInputs :
         /\ calls < MaxIndexCalls
         /\ CallAddKnowledge(Solo, input.content, input.source)
         /\ Begins("add_knowledge", input, FALSE)
    \/ SoloAddKnowledge
    \/ \E query \in KbQueries :
         /\ calls < MaxIndexCalls
         /\ CallRetrieveContext(Solo, query)
         /\ Begins("retrieve_context", [query |-> query], FALSE)
    \/ SoloRetrieveContext

SpecEmbed == EmbedInit /\ [][EmbedNext]_vars

(***************************************************************************)
(* Concurrent callers of one Manager: the steps of their calls interleave. *)
(* add_knowledge awaits the embedding, then reads the count, then adds;    *)
(* retrieve_context reads the count, awaits the embedding, then searches.  *)
(* A call can be dropped only where it awaits, that is, while the          *)
(* embedding is pending: this is what a timeout around the call does.      *)
(***************************************************************************)
RaceConfigs == [chunk_size : {1}, chunk_overlap : {0}, top_k : {0, 1}, build : {"debug"}]

RaceResponses == {Ok(<<VecV>>), OllamaError, Ok(<<>>)}

RaceInit ==
    /\ cfg \in RaceConfigs
    /\ dir = NoDir
    /\ InitMgrHistory
    /\ InitStore /\ InitCallers /\ InitSeq /\ InitChunkIdle /\ InitLanceIdle

RaceNext ==
    \E p \in Callers :
        \/ \E input \in KbInputs :
             /\ calls < MaxRaceCalls
             /\ CallAddKnowledge(p, input.content, input.source)
             /\ Untracked
        \/ \E response \in RaceResponses : AkEmbedded(p, response) /\ Untracked
        \/ AkAbandoned(p) /\ Untracked
        \/ AkCount(p) /\ Untracked
        \/ AkAdd(p) /\ Untracked
        \/ \E query \in KbQueries :
             /\ calls < MaxRaceCalls
             /\ CallRetrieveContext(p, query)
             /\ Untracked
        \/ \E response \in RaceResponses : RcEmbedded(p, response) /\ Untracked
        \/ RcSearch(p) /\ Untracked
        \/ calls < MaxRaceCalls /\ MgrCount(p) /\ Untracked
        \/ calls < MaxRaceCalls /\ MgrClear(p) /\ Untracked

SpecRace == RaceInit /\ [][RaceNext]_vars

(***************************************************************************)
(* Concurrent callers of one Manager that index the directory d, which     *)
(* holds the file d/f.md of two chunks, add single texts, count and clear. *)
(* index_directory awaits the traversal, then one embedding for each chunk *)
(* and adds the document when the answer arrives; other callers run while  *)
(* it waits.                                                               *)
(***************************************************************************)
RaceIndexDir == [listing |-> "ok", entries |-> <<EntryList[1]>>]

RaceIndexInputs == {input \in KbInputs : input.source = "a"}

RaceIndexResponses == {Ok(<<VecV>>), OllamaError}

RaceIndexInit ==
    /\ cfg \in {config \in RaceConfigs : config.top_k = 1}
    /\ dir = RaceIndexDir
    /\ InitMgrHistory
    /\ InitStore /\ InitCallers /\ InitSeq /\ InitChunkIdle /\ InitLanceIdle

RaceIndexNext ==
    \E p \in Callers :
        \/ \E input \in RaceIndexInputs :
             /\ calls < MaxRaceCalls
             /\ CallAddKnowledge(p, input.content, input.source)
             /\ Untracked
        \/ \E response \in RaceIndexResponses : AkEmbedded(p, response) /\ Untracked
        \/ AkCount(p) /\ Untracked
        \/ AkAdd(p) /\ Untracked
        \/ calls < MaxRaceCalls /\ CallIndexDirectory(p) /\ Untracked
        \/ IxCollected(p) /\ Untracked
        \/ \E response \in RaceIndexResponses : IxEmbedded(p, response) /\ Untracked
        \/ calls < MaxRaceCalls /\ MgrCount(p) /\ Untracked
        \/ calls < MaxRaceCalls /\ MgrClear(p) /\ Untracked

SpecRaceIndex == RaceIndexInit /\ [][RaceIndexNext]_vars

(***************************************************************************)
(* Vocabulary of the properties.                                           *)
(***************************************************************************)
Searched == last.op = "search"

Returned == Searched /\ last.result.status = "ok"

\* every component is 0.0, so the magnitude is exactly zero
ZeroMagnitude(v) == \A i \in 1..Len(v) : FIsZero(v[i])

HasNaN(v) == \E i \in 1..Len(v) : v[i].nan

Degenerate(a, b) == Len(a) # Len(b) \/ ZeroMagnitude(a) \/ ZeroMagnitude(b)

One == F(1)

\* the f32 arithmetic of cosine_similarity is exact on v: integer components,
\* an integer magnitude, and a squared magnitude below 2^24
SquaredMagnitude(v) == FSum([i \in 1..Len(v) |-> FMul(v[i], v[i])])

ExactF32(v) ==
    /\ \A i \in 1..Len(v) : ~v[i].nan /\ v[i].d = 1
    /\ SquaredMagnitude(v).n < 16777216
    /\ \E r \in 0..SquaredMagnitude(v).n : r * r = SquaredMagnitude(v).n

\* b is a times a positive number
SameDirection(a, b) ==
    /\ Len(a) = Len(b)
    /\ ~HasNaN(a) /\ ~HasNaN(b)
    /\ ~ZeroMagnitude(a) /\ ~ZeroMagnitude(b)
    /\ \A i, j \in 1..Len(a) : FMul(a[i], b[j]) = FMul(a[j], b[i])
    /\ \A i \in 1..Len(a) : FMul(a[i], b[i]).n >= 0

\* the search was issued right after an add, with the added embedding as query
AddThenSearch ==
    /\ Searched
    /\ after_add # <<>>
    /\ last.arg.query = after_add[1].embedding
    /\ last.arg.top_k >= 1

(***************************************************************************)
(* C1: no two stored documents share an id (an add of an id that is        *)
(* already present replaces the stored document).                          *)
(***************************************************************************)
C1_UniqueIds ==
    \A i, j \in 1..Len(documents) : i # j => documents[i].id # documents[j].id

(***************************************************************************)
(* C2: concurrent add calls lose no document: as long as no clear has      *)
(* returned, the store holds exactly the documents of the add calls that   *)
(* have returned, each as often as it was added.                           *)
(***************************************************************************)
BagOfSeq(s) ==
    [x \in {s[i] : i \in 1..Len(s)} |-> Cardinality({i \in 1..Len(s) : s[i] = x})]

C2_NoLostAdd == ~ever_cleared => BagOfSeq(documents) = BagOfSeq(completed)

C2_Witness ==
    /\ ~ever_cleared
    /\ raced
    /\ \A p \in Callers : pc[p] = "idle"
    /\ ret[1].op = "add" /\ ret[2].op = "add"
    /\ ret[1].arg # ret[2].arg
    /\ Len(documents) = 2

(***************************************************************************)
(* C3: read-write exclusion over the Vec: either no writer (add, clear) is *)
(* inside and any number of readers (search, count) may be, or exactly one *)
(* writer is inside and no reader.                                         *)
(***************************************************************************)
WritersInside == {p \in Callers : pc[p] \in {"add_in", "clear_in"}}

ReadersInside == {p \in Callers : pc[p] \in {"search_in", "count_in"}}

C3_ReadWriteExclusion ==
    /\ \/ WritersInside = {}
       \/ Cardinality(WritersInside) = 1 /\ ReadersInside = {}
    /\ rw.writer <=> WritersInside # {}
    /\ rw.readers = Cardinality(ReadersInside)

C3_Witness ==
    /\ Cardinality(ReadersInside) = 2
    /\ Len(documents) >= 1
    /\ \E p \in Callers : ret[p].op = "add"

(***************************************************************************)
(* C4: search returns min(top_k, count()) results in non-increasing score  *)
(* order, each a stored document with its cosine score, and no document    *)
(* left out scores higher than a returned one.                             *)
(***************************************************************************)
C4_SearchRanked ==
    Searched =>
        LET r == last.result
            q == last.arg.query
            k == last.arg.top_k
            v == r.value
            kept == {v[i].pos : i \in 1..Len(v)}
        IN  /\ r.status = "ok"
            /\ Len(v) = Min(k, count(documents))
            /\ \A i, j \in 1..Len(v) :
                 i < j => partial_cmp(v[i].score, v[j].score) \in {"Greater", "Equal"}
            /\ \A i \in 1..Len(v) :
                 /\ v[i].pos \in 1..Len(documents)
                 /\ v[i].document = documents[v[i].pos]
                 /\ v[i].score = cosine_similarity(q, v[i].document.embedding)
            /\ Cardinality(kept) = Len(v)
            /\ \A p \in (1..Len(documents)) \ kept : \A i \in 1..Len(v) :
                 partial_cmp(cosine_similarity(q, documents[p].embedding), v[i].score)
                     # "Greater"

(***************************************************************************)
(* C5: in the result of a search, documents of equal score appear in the   *)
(* order in which they were added.                                         *)
(***************************************************************************)
C5_TiesInInsertionOrder ==
    Returned =>
        LET v == last.result.value
        IN  \A i, j \in 1..Len(v) :
              (i < j /\ partial_cmp(v[i].score, v[j].score) = "Equal")
                  => v[i].pos < v[j].pos

C5_Witness ==
    /\ Returned
    /\ Len(documents) = 3
    /\ LET v == last.result.value
       IN  /\ Len(v) = 2
           /\ v[1].pos = 2 /\ v[2].pos = 3
           /\ v[1].score = v[2].score
           /\ v[1].document # v[2].document

(***************************************************************************)
(* C6: search returns normally for every stored embedding and query, and   *)
(* a document whose embedding differs in length from the query, or where   *)
(* either vector has zero magnitude, scores 0.0.                           *)
(***************************************************************************)
C6_SearchNeverAborts ==
    Searched =>
        /\ last.result.status = "ok"
        /\ \A i \in 1..Len(last.result.value) :
             Degenerate(last.arg.query, last.result.value[i].document.embedding)
                 => last.result.value[i].score = F(0)

(***************************************************************************)
(* C7: count() equals the number of add calls returned since the last      *)
(* clear (or since creation), and is 0 after a clear.                      *)
(***************************************************************************)
C7_CountTracksAdds ==
    /\ count(documents) = adds_since_clear
    /\ last.op = "count" => last.result.value = adds_since_clear
    /\ last.op = "clear" => count(documents) = 0

C7_Witness ==
    /\ last.op = "count"
    /\ ever_cleared
    /\ last.result.value = 2
    /\ documents[1].id = documents[2].id

(***************************************************************************)
(* C8, as stated: after add of a document with embedding E, search with    *)
(* query E and top_k >= 1 returns that document first with score 1.0.      *)
(***************************************************************************)
C8_AddedFirstWithScoreOne ==
    AddThenSearch =>
        /\ last.result.status = "ok"
        /\ Len(last.result.value) >= 1
        /\ last.result.value[1].document = after_add[1]
        /\ last.result.value[1].score = One

(***************************************************************************)
(* C8, amended: when E has non-zero magnitude and the f32 arithmetic of     *)
(* cosine_similarity is exact on E and on every stored embedding that has  *)
(* no NaN component, the documents that score 1.0 against E are those with *)
(* an embedding in the direction of E, the added document among them; the  *)
(* search panics exactly when the store holds a document whose score       *)
(* against E is NaN (at least two documents being stored), and otherwise   *)
(* returns first the earliest added document of score 1.0, which is the    *)
(* added document when no earlier document scores 1.0.                     *)
(***************************************************************************)
C8_EarliestParallelFirst ==
    (/\ AddThenSearch
     /\ ~ZeroMagnitude(last.arg.query)
     /\ ExactF32(last.arg.query)
     /\ \A p \in 1..Len(documents) :
          HasNaN(documents[p].embedding) \/ ExactF32(documents[p].embedding)) =>
        LET q == last.arg.query
            r == last.result
            n == Len(documents)
            ones == {p \in 1..n : cosine_similarity(q, documents[p].embedding) = One}
            nans == {p \in 1..n : cosine_similarity(q, documents[p].embedding).nan}
        IN  /\ documents[n] = after_add[1]
            /\ n \in ones
            /\ ones = {p \in 1..n : SameDirection(q, documents[p].embedding)}
            /\ \A p \in 1..n :
                 LET score == cosine_similarity(q, documents[p].embedding)
                 IN  score.nan \/ partial_cmp(score, One) \in {"Less", "Equal"}
            /\ r.status = "panic" <=> (n >= 2 /\ nans # {})
            /\ r.status = "ok" =>
                 /\ Len(r.value) >= 1
                 /\ r.value[1].score = One
                 /\ r.value[1].pos \in ones
                 /\ \A p \in ones : r.value[1].pos <= p
                 /\ r.value[1].document = documents[r.value[1].pos]

\* an earlier document in the direction of E, of another embedding, ties at
\* 1.0 with the added document and is returned ahead of it
C8_Witness ==
    /\ AddThenSearch
    /\ last.result.status = "ok"
    /\ Len(documents) = 3
    /\ Len(last.result.value) = 2
    /\ last.result.value[1].pos = 1
    /\ last.result.value[1].score = One
    /\ last.result.value[1].document.embedding # last.arg.query
    /\ last.result.value[2].pos = 3
    /\ last.result.value[2].document = after_add[1]
    /\ last.result.value[2].score = One

(***************************************************************************)
(* C9: remove_by_source(s) removes exactly the documents whose source is s *)
(* or nested under s, leaves the others unchanged and in order, and        *)
(* returns the number removed, 0 when none match.                          *)
(***************************************************************************)
IsUnder(path, s) == Len(s) <= Len(path) /\ SubSeq(path, 1, Len(s)) = s

Matches(document, s) == IsUnder(document.metadata["source"], s)

KeepOthers(document, s) == ~Matches(document, s)

C9_RemoveBySource ==
    lance_ret.op = "remove_by_source" =>
        LET s == lance_ret.arg.source_path
            before == lance_ret.arg.before
            Other(document) == KeepOthers(document, s)
        IN  /\ lance_ret.result.status = "ok"
            /\ lance_ret.result.value =
                 Cardinality({i \in 1..Len(before) : Matches(before[i], s)})
            /\ lance_disk.rows = SelectSeq(before, Other)

(***************************************************************************)
(* C10: with overlap < chunk_size, chunk_text returns [text] when          *)
(* len(text) <= chunk_size, and otherwise the windows                      *)
(* text[i*step .. min(i*step + chunk_size, len(text))], step = chunk_size  *)
(* - overlap, for i = 0, 1, ... up to the first window that ends at        *)
(* len(text); every window but the last has length chunk_size and the      *)
(* windows cover every position of the text.                               *)
(***************************************************************************)
Window(text, chunk_size, step, i) ==
    SubSeq(text, i * step + 1, Min(i * step + chunk_size, Len(text)))

C10_WindowsOfText ==
    (ch_out # NotCalled /\ ch_in.overlap < ch_in.chunk_size) =>
        LET text == ch_in.text
            size == ch_in.chunk_size
            step == ch_in.chunk_size - ch_in.overlap
            out == ch_out.value
            n == Len(out)
        IN  /\ ch_out.status = "ok"
            /\ Len(text) <= size => out = <<text>>
            /\ Len(text) > size =>
                 /\ n >= 1
                 /\ \A i \in 1..n : out[i] = Window(text, size, step, i - 1)
                 /\ (n - 1) * step + size >= Len(text)
                 /\ \A i \in 1..(n - 1) :
                      (i - 1) * step + size < Len(text) /\ Len(out[i]) = size
                 /\ \A pos \in 1..Len(text) : \E i \in 1..n :
                      (i - 1) * step < pos /\ pos <= (i - 1) * step + Len(out[i])

(***************************************************************************)
(* C11: with overlap >= chunk_size, chunk_text terminates and reports a    *)
(* configuration error: it does not loop for ever, does not underflow      *)
(* chunk_size - overlap, and returns no chunks.                            *)
(***************************************************************************)
C11_ConfigError ==
    (ch_out # NotCalled /\ ch_in.overlap >= ch_in.chunk_size) => ch_out.status = "err"

(***************************************************************************)
(* Vocabulary of the Manager properties.                                   *)
(***************************************************************************)
Indexed == mlast.op = "index_directory"

ValidChunking == cfg.chunk_overlap < cfg.chunk_size

EmbedFailed == mlast.result.status = "err" /\ mlast.result.value.kind = "Embedder"

\* the error embed makes of an answer that carries no embedding
ErrorOf(response) == IF response.status # "ok" THEN "Ollama" ELSE "NoEmbeddings"

Answered(response) == response.status = "ok" /\ response.value # <<>>

\* the chunks of a text as the chunking contract describes them
ExpectedChunks(text, chunk_size, overlap) ==
    IF Len(text) <= chunk_size THEN <<text>>
    ELSE LET step == chunk_size - overlap
             n == CHOOSE m \in 1..Len(text) :
                    /\ (m - 1) * step + chunk_size >= Len(text)
                    /\ \A l \in 1..(m - 1) : (l - 1) * step + chunk_size < Len(text)
         IN  [i \in 1..n |-> Window(text, chunk_size, step, i - 1)]

\* every (file, chunk index, chunk) of a list of files, in order
RECURSIVE ChunkPairs(_, _)
ChunkPairs(files, k) ==
    IF k > Len(files) THEN <<>>
    ELSE LET chunks == ExpectedChunks(files[k].content, cfg.chunk_size, cfg.chunk_overlap)
         IN  [i \in 1..Len(chunks) |->
                 [path |-> files[k].path, index |-> i - 1, chunk |-> to_string(chunks[i])]]
             \o ChunkPairs(files, k + 1)

(***************************************************************************)
(* C12: index_directory with chunk_overlap >= chunk_size returns a         *)
(* configuration error before any I/O: nothing is read, no embedding is    *)
(* requested and the store is unchanged.                                   *)
(***************************************************************************)
C12_RejectedBeforeIO ==
    (Indexed /\ ~ValidChunking) =>
        /\ mlast.result.status = "err"
        /\ mlast.result.value.kind = "Configuration"
        /\ ~mlast.io
        /\ mlast.embeds = <<>>
        /\ documents = mlast.before

(***************************************************************************)
(* C13: when the directory can be listed, the chunking parameters are      *)
(* valid and no embedding request fails, index_directory returns the       *)
(* number of files collected, and has appended to the store, file by file  *)
(* and in chunk order, one document per chunk i of each file f, with id    *)
(* "<f>_chunk_<i>", the chunk as content and metadata source = f and       *)
(* chunk = i.                                                              *)
(***************************************************************************)
C13_IndexStoresChunks ==
    (Indexed /\ ValidChunking /\ collect_files(dir).status = "ok" /\ ~EmbedFailed) =>
        LET files == collect_files(dir).value
            pairs == ChunkPairs(files, 1)
            n == Len(mlast.before)
        IN  /\ mlast.result.status = "ok"
            /\ mlast.result.value = Len(files)
            /\ count(documents) = n + Len(pairs)
            /\ SubSeq(documents, 1, n) = mlast.before
            /\ \A j \in 1..Len(pairs) :
                 LET document == documents[n + j]
                     f == display(pairs[j].path)
                 IN  /\ document.id = f \o "_chunk_" \o ToString(pairs[j].index)
                     /\ document.content = pairs[j].chunk
                     /\ document.metadata["source"] = f
                     /\ document.metadata["chunk"] = ToString(pairs[j].index)

(***************************************************************************)
(* C14: when an embedding request fails during index_directory, the call   *)
(* returns that error and stops there: the failed request is the last one  *)
(* sent, every chunk embedded before it is stored after the documents      *)
(* that were in the store before the call, in order, and those documents   *)
(* are unchanged.                                                          *)
(***************************************************************************)
C14_StopsAtFirstEmbedError ==
    (Indexed /\ \E j \in 1..Len(mlast.embeds) : ~Answered(mlast.embeds[j].response)) =>
        LET sent == mlast.embeds
            n == Len(mlast.before)
            k == Len(sent)
        IN  /\ \A j \in 1..(k - 1) : Answered(sent[j].response)
            /\ mlast.result.status = "err"
            /\ mlast.result.value = RagError_Embedder(ErrorOf(sent[k].response))
            /\ count(documents) = n + k - 1
            /\ SubSeq(documents, 1, n) = mlast.before
            /\ \A j \in 1..(k - 1) :
                 /\ documents[n + j].content = sent[j].input
                 /\ documents[n + j].embedding = sent[j].response.value[1]

C14_Witness ==
    /\ Indexed
    /\ EmbedFailed
    /\ Len(mlast.before) >= 1
    /\ Len(mlast.embeds) = 3
    /\ Len(documents) = Len(mlast.before) + 2
    /\ documents[Len(documents)].metadata["source"] = "d/s/k.rs"
    /\ mlast.embeds[3].input = "b"

(***************************************************************************)
(* C15: after index_directory has been called again on the unchanged       *)
(* directory and has succeeded, the store holds exactly one document per   *)
(* (file, chunk index): no two documents share an id and count() is the    *)
(* number of chunks of the directory.                                      *)
(***************************************************************************)
C15_ReindexSafe ==
    (/\ Indexed
     /\ mlast.result.status = "ok"
     /\ ~ever_cleared
     /\ calls >= 2
     /\ ValidChunking) =>
        /\ \A i, j \in 1..Len(documents) : i # j => documents[i].id # documents[j].id
        /\ count(documents) = Len(ChunkPairs(collect_files(dir).value, 1))

(***************************************************************************)
(* C16: a successful add_knowledge(content, source) has sent one embedding *)
(* request, for content, and has appended one document to the store: its   *)
(* content is content, its embedding the one received, its metadata        *)
(* source = source, its id "<source>_<n>" with n the count of the store    *)
(* before the call; the other documents are unchanged.                     *)
(***************************************************************************)
C16_AddKnowledgeAddsOne ==
    (mlast.op = "add_knowledge" /\ mlast.result.status = "ok") =>
        LET n == Len(mlast.before)
        IN  /\ Len(mlast.embeds) = 1
            /\ mlast.embeds[1].input = mlast.arg.content
            /\ Answered(mlast.embeds[1].response)
            /\ count(documents) = n + 1
            /\ SubSeq(documents, 1, n) = mlast.before
            /\ documents[n + 1].id = mlast.arg.source \o "_" \o ToString(n)
            /\ documents[n + 1].content = mlast.arg.content
            /\ documents[n + 1].embedding = mlast.embeds[1].response.value[1]
            /\ DOMAIN documents[n + 1].metadata = {"source"}
            /\ documents[n + 1].metadata["source"] = mlast.arg.source

C16_Witness ==
    /\ mlast.op = "add_knowledge"
    /\ mlast.result.status = "ok"
    /\ ever_cleared
    /\ calls = 4
    /\ Len(mlast.before) = 1
    /\ documents[2].id = "b_1"
    /\ Len(mlast.embeds[1].response.value) = 2

(***************************************************************************)
(* C17: after any sequence of add_knowledge, clear and remove_by_source    *)
(* calls made one at a time, no two documents of the store have the same   *)
(* id.  The other calls of these runs, count and retrieve_context, leave   *)
(* the store as it is.                                                     *)
(***************************************************************************)
C17_SerializedIdsUnique ==
    \A i, j \in 1..Len(documents) : i # j => documents[i].id # documents[j].id

(***************************************************************************)
(* C18: retrieve_context on an empty store returns the empty string as a   *)
(* success and sends no embedding request, also when the embedding service *)
(* would fail.                                                             *)
(***************************************************************************)
Retrieved == mlast.op = "retrieve_context"

C18_EmptyStoreEmptyContext ==
    (Retrieved /\ mlast.before = <<>>) =>
        /\ mlast.embeds = <<>>
        /\ mlast.result.status = "ok"
        /\ mlast.result.value = ""
        /\ documents = <<>>

C18_Witness ==
    /\ Retrieved
    /\ mlast.before = <<>>
    /\ mlast.result = Ok("")
    /\ mlast.embeds = <<>>
    /\ ever_cleared
    /\ calls >= 3

(***************************************************************************)
(* The context block of a ranked list: the header, then entry i of the     *)
(* list as "[i] <content>" for i = 1..n.                                   *)
(***************************************************************************)
Entry(i, content) == "\n[" \o ToString(i) \o "] " \o content \o "\n"

RECURSIVE Block(_, _)
Block(results, n) ==
    IF n = 0 THEN Header
    ELSE Block(results, n - 1) \o Entry(n, results[n].document.content)

\* the query embedding was received: the request of the call was answered
QueryEmbedded ==
    /\ Retrieved
    /\ mlast.before # <<>>
    /\ Len(mlast.embeds) = 1
    /\ Answered(mlast.embeds[1].response)

\* some stored document has a NaN score against the query embedding q
SomeScoreNaN(docs, q) ==
    \E p \in 1..Len(docs) : cosine_similarity(q, docs[p].embedding).nan

(***************************************************************************)
(* C19, as stated: retrieve_context on a non-empty store with a successful *)
(* query embedding returns the header followed by min(top_k, count())      *)
(* entries numbered from 1, entry i carrying the content of the i-th       *)
(* result of search(query_embedding, top_k).                               *)
(***************************************************************************)
C19_HeaderAndEntries ==
    QueryEmbedded =>
        /\ mlast.result.status = "ok"
        /\ LET q == mlast.embeds[1].response.value[1]
               results == search(mlast.before, q, cfg.top_k).value
               n == Min(cfg.top_k, count(mlast.before))
           IN  /\ Len(results) = n
               /\ mlast.result.value = Block(results, n)

(***************************************************************************)
(* C19, amended: with top_k >= 1 the call returns the header followed by   *)
(* the min(top_k, count()) numbered entries of the ranked search, and with *)
(* top_k = 0 it returns the empty string; but when the store holds at      *)
(* least two documents and some score is NaN, the search panics and the    *)
(* call returns nothing.  The store is unchanged in every case.            *)
(***************************************************************************)
C19_ContextOfSearch ==
    QueryEmbedded =>
        LET q == mlast.embeds[1].response.value[1]
            n == Min(cfg.top_k, count(mlast.before))
        IN  /\ documents = mlast.before
            /\ mlast.embeds[1].input = mlast.arg.query
            /\ IF count(mlast.before) >= 2 /\ SomeScoreNaN(mlast.before, q)
               THEN mlast.result = Panicked
               ELSE /\ mlast.result.status = "ok"
                    /\ cfg.top_k = 0 => mlast.result.value = ""
                    /\ cfg.top_k >= 1 =>
                         LET results == search(mlast.before, q, cfg.top_k).value
                         IN  /\ Len(results) = n
                             /\ mlast.result.value = Block(results, n)

C19_Witness ==
    /\ QueryEmbedded
    /\ cfg.top_k = 2
    /\ Len(mlast.before) = 3
    /\ mlast.result.status = "ok"
    /\ LET results == search(mlast.before, mlast.embeds[1].response.value[1], 2).value
       IN  /\ results[1].pos = 3
           /\ results[1].score # results[2].score
           /\ mlast.result.value = Header \o "\n[1] u\n" \o "\n[2] t\n"

(***************************************************************************)
(* C20: when the store is not empty and the query embedding request fails, *)
(* retrieve_context returns that error, not a context string, and leaves   *)
(* the store unchanged.                                                    *)
(***************************************************************************)
C20_QueryErrorSurfaces ==
    (/\ Retrieved
     /\ mlast.before # <<>>
     /\ \E j \in 1..Len(mlast.embeds) : ~Answered(mlast.embeds[j].response)) =>
        /\ Len(mlast.embeds) = 1
        /\ mlast.result.status = "err"
        /\ mlast.result.value = RagError_Embedder(ErrorOf(mlast.embeds[1].response))
        /\ documents = mlast.before

C20_Witness ==
    /\ Retrieved
    /\ Len(mlast.before) = 2
    /\ Len(mlast.embeds) = 1
    /\ mlast.result.status = "err"
    /\ mlast.result.value.source = "NoEmbeddings"

(***************************************************************************)
(* C21: no embedding is retried.  add_knowledge and retrieve_context send  *)
(* at most one request; index_directory sends one request per chunk, in    *)
(* the order of the chunks; a request that fails is the last one of the    *)
(* call, and the call returns the error of that request: Ollama when the   *)
(* service call failed, NoEmbeddings when it returned no vector.           *)
(***************************************************************************)
C21_NoRetry ==
    LET sent == mlast.embeds
        k == Len(sent)
    IN  /\ mlast.op \in {"add_knowledge", "retrieve_context"} => k <= 1
        /\ mlast.op = "add_knowledge" => k = 1 /\ sent[1].input = mlast.arg.content
        /\ (Retrieved /\ k = 1) => sent[1].input = mlast.arg.query
        /\ (Indexed /\ collect_files(dir).status = "ok") =>
             LET pairs == ChunkPairs(collect_files(dir).value, 1)
             IN  /\ k <= Len(pairs)
                 /\ \A j \in 1..k : sent[j].input = pairs[j].chunk
        /\ \A j \in 1..k :
             ~Answered(sent[j].response) =>
                 /\ j = k
                 /\ mlast.result.status = "err"
                 /\ mlast.result.value.kind = "Embedder"
                 /\ sent[j].response.status # "ok" => mlast.result.value.source = "Ollama"
                 /\ sent[j].response = Ok(<<>>) =>
                      mlast.result.value.source = "NoEmbeddings"
        /\ EmbedFailed => k >= 1 /\ ~Answered(sent[k].response)

C21_Witness ==
    /\ mlast.op = "add_knowledge"
    /\ mlast.result.status = "err"
    /\ mlast.result.value.source = "NoEmbeddings"
    /\ Len(mlast.embeds) = 1
    /\ Len(mlast.before) >= 2

(***************************************************************************)
(* C23: directory collection skips and does not fail.  index_directory     *)
(* with valid chunking parameters reports a traversal failure exactly when *)
(* the root directory cannot be read, and then leaves the store unchanged   *)
(* and requests no embedding; when the root can be read and the call       *)
(* succeeds, it reports every readable indexable file of the tree, a file  *)
(* that cannot be read or is not indexable contributing nothing.           *)
(***************************************************************************)
\* the readable indexable files of a tree, where what cannot be read
\* contributes nothing
RECURSIVE TreeFiles(_)
RECURSIVE TreeEntries(_, _)
TreeEntries(entries, k) ==
    IF k > Len(entries) THEN <<>>
    ELSE LET entry == entries[k]
             here == IF entry.kind = "dir" THEN TreeFiles(entry.sub)
                     ELSE IF entry.path.ext \in IndexableExts /\ entry.content.status = "ok"
                     THEN <<[path |-> entry.path, content |-> entry.content.value]>>
                     ELSE <<>>
         IN  here \o TreeEntries(entries, k + 1)

TreeFiles(d) == IF d.listing # "ok" THEN <<>> ELSE TreeEntries(d.entries, 1)

TraversalFailed == mlast.result.status = "err" /\ mlast.result.value.kind = "Indexer"

C23_SkipsNotFails ==
    (Indexed /\ ValidChunking) =>
        /\ TraversalFailed <=> dir.listing # "ok"
        /\ TraversalFailed => (documents = mlast.before /\ mlast.embeds = <<>>)
        /\ mlast.result.status = "ok" => mlast.result.value = Len(TreeFiles(dir))

(***************************************************************************)
(* C24: the embedded-local backend behaves as the reference engine does    *)
(* on the same collection: construction fails only when a call of lancedb  *)
(* itself fails, so it succeeds also when the collection did not exist     *)
(* before; add, clear, get_indexed_paths and remove_by_source succeed;     *)
(* search succeeds whenever the reference search on the same rows returns; *)
(* count returns the number of rows of the table when lancedb counts them. *)
(***************************************************************************)
C24_SameAsReference ==
    /\ (lance_ret.op = "new" /\ lance_store = "failed") => lance_ret.arg.fault # "none"
    /\ lance_ret.op \in {"add", "clear", "get_indexed_paths", "remove_by_source"} =>
           lance_ret.result.status = "ok"
    /\ lance_ret.op = "search" =>
           lance_ret.result.status =
               search(lance_disk.rows, lance_ret.arg.query, lance_ret.arg.top_k).status
    /\ (lance_ret.op = "count" /\ lance_ret.arg.fault = "none") =>
           lance_ret.result = Ok(count(lance_disk.rows))

(***************************************************************************)
(* Vocabulary of the properties of concurrent Manager calls.               *)
(***************************************************************************)
InAddKnowledge(p) == pc[p] \in {"ak_embed", "ak_count", "ak_add"}

LastCall(p, op) == pc[p] = "idle" /\ ret[p].op = op

\* a document as add_knowledge makes it: content, embedding, source and id
WholeDocument(d) ==
    \E input \in KbInputs :
        /\ d.content = input.content
        /\ \E response \in RaceResponses :
             embed(response).status = "ok" /\ embed(response).value = d.embedding
        /\ "source" \in DOMAIN d.metadata
        /\ d.metadata["source"] = input.source
        /\ \E n \in 0..MaxRaceCalls : d.id = knowledge_id(input.source, n)

(***************************************************************************)
(* C22: an add_knowledge call whose embedding request fails or that is     *)
(* abandoned while it waits for the embedding leaves the store as it was:  *)
(* the only step of an add_knowledge call that changes the store is the    *)
(* one that returns Ok, and it appends one whole document.  Every document *)
(* of the store, in every state, has its content, embedding, source and    *)
(* id.                                                                     *)
(***************************************************************************)
C22_FailedAddLeavesStore ==
    [][ /\ \A i \in 1..Len(documents') : WholeDocument(documents'[i])
        /\ \A p \in Callers :
             (InAddKnowledge(p) /\ pc'[p] # pc[p]) =>
                 IF pc'[p] = "idle" /\ ret'[p].result.status = "ok"
                 THEN /\ Len(documents') = Len(documents) + 1
                      /\ SubSeq(documents', 1, Len(documents)) = documents
                 ELSE documents' = documents ]_vars

C22_Witness ==
    /\ documents # <<>>
    /\ \E p, q \in Callers :
         /\ LastCall(p, "add_knowledge") /\ ret[p].result.status = "abandoned"
         /\ LastCall(q, "add_knowledge") /\ ret[q].result.status = "err"

(***************************************************************************)
(* C26: two add_knowledge calls with the same source that overlap can read *)
(* the same count before either adds, and then both store a document with  *)
(* the same id.  Whenever the last calls of two callers were add_knowledge *)
(* calls that made the same id and returned Ok, and the store was never    *)
(* cleared, the store holds two documents with that id.                    *)
(***************************************************************************)
AddedKnowledge(p) == LastCall(p, "add_knowledge") /\ ret[p].result.status = "ok"

C26_SameCountSameId ==
    \A p, q \in Callers :
        (/\ p # q
         /\ AddedKnowledge(p) /\ AddedKnowledge(q)
         /\ ret[p].arg.id = ret[q].arg.id
         /\ ~ever_cleared) =>
            \E i, j \in 1..Len(documents) :
                /\ i < j
                /\ documents[i].id = ret[p].arg.id
                /\ documents[j].id = ret[p].arg.id

C26_Witness ==
    /\ \E p, q \in Callers :
         /\ p # q
         /\ AddedKnowledge(p) /\ AddedKnowledge(q)
         /\ ret[p].arg.source = ret[q].arg.source
    /\ \E i, j \in 1..Len(documents) : i < j /\ documents[i].id = documents[j].id

(***************************************************************************)
(* C28: retrieve_context never returns the header without entries.  The    *)
(* context of a call that returned Ok is the empty string, or the header   *)
(* followed by one numbered entry or more, whatever top_k is and whatever  *)
(* other callers did to the store during the call.                         *)
(***************************************************************************)
\* lists of results, as far as their rendering goes: the contents in order
Renderable ==
    { [i \in 1..Len(contents) |-> [document |-> [content |-> contents[i]]]] :
        contents \in SeqsUpTo({input.content : input \in KbInputs}, MaxTopK) \ {<<>>} }

C28_NeverHeaderAlone ==
    \A p \in Callers :
        (LastCall(p, "retrieve_context") /\ ret[p].result.status = "ok") =>
            \/ ret[p].result.value = ""
            \/ \E results \in Renderable : ret[p].result.value = Block(results, Len(results))

\* the count check passed, the store was cleared, the search found nothing
C28_Witness ==
    \E p \in Callers :
        /\ LastCall(p, "retrieve_context")
        /\ ret[p].result.status = "ok"
        /\ ret[p].result.value = ""
        /\ ret[p].arg.embedding # <<>>
        /\ cfg.top_k = 1
        /\ ever_cleared

(***************************************************************************)
(* C27: with no clear, a search or count that runs while adds are made     *)
(* observes an atomic snapshot: the documents it saw are a prefix of the   *)
(* documents in the order in which their adds completed, the prefix holds  *)
(* every document whose add had completed when the read was called, count  *)
(* returned the length of what it saw, and the values count returned to    *)
(* one caller never decrease.                                              *)
(***************************************************************************)
IsPrefix(s, t) == Len(s) <= Len(t) /\ SubSeq(t, 1, Len(s)) = s

HasRead(p) == pc[p] = "idle" /\ ret[p].op \in {"search", "count"}

C27_AtomicSnapshot ==
    \A p \in Callers :
        /\ HasRead(p) =>
             /\ IsPrefix(observed[p], completed)
             /\ Len(observed[p]) >= started[p]
             /\ ret[p].op = "count" => ret[p].result.value = Len(observed[p])
        /\ \A i, j \in 1..Len(counted[p]) : i < j => counted[p][i] <= counted[p][j]

\* a caller counted twice; an add completed between the call of its second
\* count and the read of the Vec
C27_Witness ==
    \E p \in Callers :
        /\ HasRead(p)
        /\ Len(counted[p]) = 2
        /\ counted[p][1] < counted[p][2]
        /\ started[p] < Len(observed[p])

====
